---- MODULE Spec2Model ----
(***************************************************************************)
(* A model of the chopsticks / configmgr package-state manager:            *)
(*   - the dependency resolver  (src/configmgr/core/depsolver.py)          *)
(*   - the action executor      (src/core/executor.py)                     *)
(*   - the ledger               (src/configmgr/core/state.py)              *)
(*   - the command drivers      (src/cli/main.py)                          *)
(* Each resolver is a pure function; it is applied by one action to        *)
(* inputs drawn by Init.  The executor is a step machine whose steps are   *)
(* the calls it makes on an action (check, run, rollback) and the answers  *)
(* it reads from the operator.                                             *)
(***************************************************************************)
EXTENDS Integers, Sequences, FiniteSets, TLC

VARIABLES
    repo,        \* what repo_lookup answers: name -> package definition (or not found)
    targets,     \* the list of requested package names
    installed,   \* the ledger handed to a resolver: name -> version
    call,        \* which resolver has been called: "none", "install", "uninstall"
    outcome,     \* what the call returned or raised
    nActions,    \* Executor.run: the number of actions of the sequence handed to it
    no_confirm,  \* Executor.run: its no_confirm argument
    cur,         \* Executor.run: the index of the action the loop is at
    epc,         \* Executor.run: where the executor is (see the executor section)
    rollback_succeeded,  \* deal_with_failure: its local flag
    answers,     \* the number of lines the operator has typed so far
    trace,       \* the calls made on the actions and the answers read, in order
    ret,         \* what Executor.run returned ("" while it has not)
    stderr,      \* what the executor has printed to sys.stderr, in order
    command,     \* the subcommand given to main: "none", "install", "uninstall", "update"
    dry_run,     \* args.dry_run
    ncmd,        \* the number of commands run on the ledger so far, the running one included
    disk,        \* the ledger in STATE_FILE: name -> version
    st,          \* st.installed of the running command: name -> version
    plan,        \* the plan the command loops over
    pidx,        \* the index of the plan entry the loop is at (0 before the first)
    dpc,         \* where the command is: "start", "loop", "executor", "ended"
    exit,        \* how the command ended: "" (has not), "0", "1" or the exception raised
    dlog,        \* what the command did with the executor and the ledger, in order
    shown,       \* dry run: what was printed for the latest plan entry
    cls,         \* the class of the action instance under study ("" while none is)
    args,        \* the arguments its constructor was given
    self,        \* its instance fields
    node,        \* what the file system holds at the path of the action
    tmp,         \* what it holds at that path with ".tmp" appended
    system,      \* the packages pacman has installed on the machine
    calls,       \* the methods called on the instance, each with what it found and left
    io           \* the file write a run() is in the middle of, and whether the process died

resolverVars == <<repo, targets, installed, call, outcome>>

execVars == <<nActions, no_confirm, cur, epc, rollback_succeeded, answers, trace, ret, stderr>>

driverVars == <<command, dry_run, ncmd, disk, st, plan, pidx, dpc, exit, dlog, shown>>

actionVars == <<cls, args, self, node, tmp, system, calls, io>>

vars == <<repo, targets, installed, call, outcome,
          nActions, no_confirm, cur, epc, rollback_succeeded, answers, trace, ret, stderr,
          command, dry_run, ncmd, disk, st, plan, pidx, dpc, exit, dlog, shown,
          cls, args, self, node, tmp, system, calls, io>>

(***************************************************************************)
(* Bounds of the model                                                     *)
(***************************************************************************)
Names == {"a", "b", "c"}

\* total number of dependency entries over all package definitions
MaxEdges == 3

\* length of the list of targets
MaxTargets == 2

\* length of the sequence of actions handed to the executor
MaxActions == 2

\* number of lines the operator types during one run of the executor
MaxAnswers == 3

\* number of calls made on one State object
MaxOps == 3

\* number of bytes of the file an action finds at its path
MaxLen == 3

\* number of characters of the text an action is constructed with
MaxArg == 2

\* number of method calls made on one action instance
MaxCalls == 3

\* length of the list of packages a pacman action is constructed with
MaxPkgs == 2

\* total number of dependency entries of a repository a command is run on
MaxDriverEdges == 2

\* the version every definition in the repository carries, and the
\* versions a ledger entry may hold (equal to it, or an older one)
RepoVersion == "v2"
LedgerVersions == {"v1", "v2"}

(***************************************************************************)
(* Helpers on sequences                                                    *)
(***************************************************************************)
Range(s) == {s[i] : i \in 1..Len(s)}

SeqsUpTo(S, n) == UNION {[1..k -> S] : k \in 0..n}

NoRepeat(s) == \A i, j \in 1..Len(s) : s[i] = s[j] => i = j

Reverse(s) == [i \in 1..Len(s) |-> s[Len(s) + 1 - i]]

\* the orders in which a set can be iterated
Orders(S) == {s \in [1..Cardinality(S) -> S] : Range(s) = S}

RECURSIVE SelectSeq2(_, _)
\* the subsequence of s of the elements in S
SelectSeq2(s, S) ==
    IF s = <<>> THEN <<>>
    ELSE IF Head(s) \in S THEN <<Head(s)>> \o SelectSeq2(Tail(s), S)
    ELSE SelectSeq2(Tail(s), S)

\* the index of the first occurrence of x in s (0 when absent)
IndexOf(s, x) == IF x \in Range(s) THEN CHOOSE i \in 1..Len(s) : s[i] = x /\ \A j \in 1..(i-1) : s[j] # x ELSE 0

(***************************************************************************)
(* Package (src/configmgr/core/package.py)                                 *)
(***************************************************************************)
\* a package definition: its version and its list of dependencies (its name is
\* the key it is stored under; its action lists play no part in resolution)
Package(version, deps) == [found |-> TRUE, version |-> version, dependencies |-> deps]

\* repo_lookup raises for this name (PackageNotFoundError)
NoPackage == [found |-> FALSE, version |-> "", dependencies |-> <<>>]

\* Package.__post_init__: name and version must be non-empty
ValidPackage(name, version) == name # "" /\ version # ""

(***************************************************************************)
(* What a resolver call returns or raises                                  *)
(***************************************************************************)
\* nothing has been called yet
NoOutcome == [kind |-> "none", plan |-> <<>>, at |-> "", by |-> ""]

\* the call returned this plan: a list of (package name, operation)
Returned(result) == [kind |-> "plan", plan |-> result, at |-> "", by |-> ""]

\* the call raised; no plan is returned.  kind is
\*   "cycle"    ValueError("Cycle detected at <at>")
\*   "notfound" the exception of repo_lookup(<at>)
\*   "blocked"  ValueError("Cannot uninstall <at>: required by installed package <by>")
\*   "invalid"  ValueError("Package.version must be non-empty str"), building Package(<at>, "")
Raised(kind, at, by) == [kind |-> kind, plan |-> <<>>, at |-> at, by |-> by]

(***************************************************************************)
(* resolve_install_order (src/configmgr/core/depsolver.py)                 *)
(***************************************************************************)
RECURSIVE visit(_, _, _)
RECURSIVE visitEach(_, _, _)

\* the local state of one call: graph, visiting, visited, order; err is the
\* exception in flight (kind "none" while there is none)
InstallStart == [graph |-> {}, visiting |-> {}, visited |-> {}, order |-> <<>>, err |-> NoOutcome]

\* for dep in pkg.dependencies: visit(dep)
visitEach(r, deps, s) ==
    IF deps = <<>> \/ s.err.kind # "none" THEN s
    ELSE visitEach(r, Tail(deps), visit(r, Head(deps), s))

\* visit with the name emitted on entry, before its dependencies (pre-order)
visit_preorder(r, name, s) ==
    IF s.err.kind # "none" THEN s
    ELSE IF name \in s.visited THEN s
    ELSE IF name \in s.visiting THEN [s EXCEPT !.err = Raised("cycle", name, "")]
    ELSE IF ~r[name].found
         THEN [s EXCEPT !.visiting = @ \cup {name}, !.err = Raised("notfound", name, "")]
    ELSE LET s1 == [s EXCEPT !.visiting = @ \cup {name}, !.graph = @ \cup {name},
                             !.order = Append(@, name)]
             s2 == visitEach(r, r[name].dependencies, s1)
         IN  IF s2.err.kind # "none" THEN s2
             ELSE [s2 EXCEPT !.visiting = @ \ {name}, !.visited = @ \cup {name}]

\* visit with a name on the active stack taken for a finished one
visit_nocycle(r, name, s) ==
    IF s.err.kind # "none" THEN s
    ELSE IF name \in s.visited \/ name \in s.visiting THEN s
    ELSE IF ~r[name].found
         THEN [s EXCEPT !.visiting = @ \cup {name}, !.err = Raised("notfound", name, "")]
    ELSE LET s1 == [s EXCEPT !.visiting = @ \cup {name}, !.graph = @ \cup {name}]
             s2 == visitEach(r, r[name].dependencies, s1)
         IN  IF s2.err.kind # "none" THEN s2
             ELSE [s2 EXCEPT !.visiting = @ \ {name},
                             !.visited = @ \cup {name},
                             !.order = Append(@, name)]

\* visit without "if name in visited: return"
visit_revisit(r, name, s) ==
    IF s.err.kind # "none" THEN s
    ELSE IF name \in s.visiting THEN [s EXCEPT !.err = Raised("cycle", name, "")]
    ELSE IF ~r[name].found
         THEN [s EXCEPT !.visiting = @ \cup {name}, !.err = Raised("notfound", name, "")]
    ELSE LET s1 == [s EXCEPT !.visiting = @ \cup {name}, !.graph = @ \cup {name}]
             s2 == visitEach(r, r[name].dependencies, s1)
         IN  IF s2.err.kind # "none" THEN s2
             ELSE [s2 EXCEPT !.visiting = @ \ {name},
                             !.visited = @ \cup {name},
                             !.order = Append(@, name)]

\* the nested function visit(name)
visit(r, name, s) ==
    IF s.err.kind # "none" THEN s
    ELSE IF name \in s.visited THEN s
    ELSE IF name \in s.visiting THEN [s EXCEPT !.err = Raised("cycle", name, "")]
    ELSE IF ~r[name].found
         THEN [s EXCEPT !.visiting = @ \cup {name}, !.err = Raised("notfound", name, "")]
    ELSE LET s1 == [s EXCEPT !.visiting = @ \cup {name}, !.graph = @ \cup {name}]
             s2 == visitEach(r, r[name].dependencies, s1)
         IN  IF s2.err.kind # "none" THEN s2
             ELSE [s2 EXCEPT !.visiting = @ \ {name},
                             !.visited = @ \cup {name},
                             !.order = Append(@, name)]

\* Classify with every installed package taken for an up-to-date one
Classify_no_update(r, inst, name) ==
    IF name \notin DOMAIN inst THEN "install" ELSE "skip"

\* the operation of one visited name against the ledger: install, update,
\* or "skip" for an entry that is left out of the plan
Classify(r, inst, name) ==
    IF name \notin DOMAIN inst THEN "install"
    ELSE IF inst[name] # r[name].version THEN "update"
    ELSE "skip"

RECURSIVE InstallResult_keep_skip(_, _, _)
\* the loop that builds result, with an entry for an up-to-date package too
InstallResult_keep_skip(r, inst, order) ==
    IF order = <<>> THEN <<>>
    ELSE <<[name |-> Head(order), op |-> Classify(r, inst, Head(order))]>>
            \o InstallResult_keep_skip(r, inst, Tail(order))

RECURSIVE InstallResult_targets_only(_, _, _, _)
\* the loop that builds result, with the dependencies of an up-to-date
\* package left out
InstallResult_targets_only(r, inst, order, skipped) ==
    IF order = <<>> THEN <<>>
    ELSE LET op == Classify(r, inst, Head(order))
         IN  IF op = "skip" \/ Head(order) \in skipped
             THEN InstallResult_targets_only(r, inst, Tail(order), skipped)
             ELSE <<[name |-> Head(order), op |-> op]>>
                     \o InstallResult_targets_only(r, inst, Tail(order), skipped)

RECURSIVE InstallResult(_, _, _)
\* the loop that builds result from order
InstallResult(r, inst, order) ==
    IF order = <<>> THEN <<>>
    ELSE LET op == Classify(r, inst, Head(order))
             rest == InstallResult(r, inst, Tail(order))
         IN  IF op = "skip" THEN rest ELSE <<[name |-> Head(order), op |-> op]>> \o rest

\* resolve_install_order that plans nothing below an up-to-date package:
\* a name that only up-to-date packages list as a dependency is left out
resolve_install_order_prune(tg, r, inst) ==
    LET s == visitEach(r, tg, InstallStart)
        live == {n \in Range(s.order) : Classify(r, inst, n) # "skip"}
        pulled == Range(tg) \cup UNION {Range(r[n].dependencies) : n \in live}
    IN  IF s.err.kind # "none" THEN s.err
        ELSE Returned(InstallResult_targets_only(r, inst, s.order, Range(s.order) \ pulled))

resolve_install_order(tg, r, inst) ==
    LET s == visitEach(r, tg, InstallStart)
    IN  IF s.err.kind # "none" THEN s.err
        ELSE Returned(InstallResult(r, inst, s.order))

(***************************************************************************)
(* resolve_uninstall_order (src/configmgr/core/depsolver.py)               *)
(***************************************************************************)
\* graph: every installed package, as the repository defines it or, when the
\* lookup raises, as a leaf at its installed version
UninstallGraph(r, inst) ==
    [n \in DOMAIN inst |-> IF r[n].found THEN r[n] ELSE Package(inst[n], <<>>)]

\* dependents.get(t, set()): the packages of graph that list t as a dependency
Dependents(g, t) ==
    IF t \in DOMAIN g THEN {n \in DOMAIN g : t \in Range(g[n].dependencies)} ELSE {}

\* a reverse-dependency check that finds no dependent
Blockers_none(tg, g, inst) == {}

\* the pairs (t, d) at which the reverse-dependency check raises
Blockers(tg, g, inst) ==
    {p \in Range(tg) \X DOMAIN g :
        /\ p[2] \in Dependents(g, p[1])
        /\ p[2] \notin Range(tg)
        /\ p[2] \in DOMAIN inst}

\* installed.get(name, "")
VersionOrEmpty(inst, name) == IF name \in DOMAIN inst THEN inst[name] ELSE ""

RECURSIVE uvisit(_, _, _, _, _)
RECURSIVE uvisitEach(_, _, _, _, _)
RECURSIVE uvisitEach_all(_, _, _, _, _)

UninstallStart == [visited |-> {}, order |-> <<>>, err |-> NoOutcome]

\* uvisitEach without "if dep in closure": every dependency is visited
uvisitEach_all(g, closure, inst, deps, s) ==
    IF deps = <<>> \/ s.err.kind # "none" THEN s
    ELSE uvisitEach_all(g, closure, inst, Tail(deps), uvisit(g, closure, inst, Head(deps), s))

\* for dep in ....dependencies: if dep in closure: visit(dep)   (deps)
\* for t in closure: visit(t)                                   (the iteration order)
uvisitEach(g, closure, inst, deps, s) ==
    IF deps = <<>> \/ s.err.kind # "none" THEN s
    ELSE uvisitEach(g, closure, inst, Tail(deps),
                    IF Head(deps) \in closure THEN uvisit(g, closure, inst, Head(deps), s) ELSE s)

\* the nested function visit(name) of resolve_uninstall_order.  The default
\* handed to graph.get, Package(name, installed.get(name, ""), []), is built
\* before graph is consulted, and building it raises for an empty version.
uvisit(g, closure, inst, name, s) ==
    IF s.err.kind # "none" THEN s
    ELSE IF name \in s.visited THEN s
    ELSE LET s1 == [s EXCEPT !.visited = @ \cup {name}]
         IN  IF ~ValidPackage(name, VersionOrEmpty(inst, name))
             THEN [s1 EXCEPT !.err = Raised("invalid", name, "")]
             ELSE LET s2 == uvisitEach(g, closure, inst, g[name].dependencies, s1)
                  IN  IF s2.err.kind # "none" THEN s2
                      ELSE [s2 EXCEPT !.order = Append(@, name)]

\* the loop that builds result from the reversed order
UninstallResult(inst, order) ==
    LET kept == SelectSeq2(order, DOMAIN inst)
    IN  [i \in 1..Len(kept) |-> [name |-> kept[i], op |-> "uninstall"]]

\* The reverse-dependency check iterates target_set and, for each target, its
\* set of dependents; Python fixes neither order.  iter is the order in which
\* target_set is iterated.  The check raises at the first blocking pair it
\* meets: one of the pairs of the first target, in iter, that is blocked.
\* <<>> stands for: the check raises nothing.
FirstBlockers(tg, r, inst, iter) ==
    LET B == Blockers(tg, UninstallGraph(r, inst), inst)
    IN  IF B = {} THEN {<<>>}
        ELSE {p \in B : \A q \in B : IndexOf(iter, p[1]) <= IndexOf(iter, q[1])}

\* resolve_uninstall_order without the final order.reverse()
resolve_uninstall_order_unreversed(tg, r, inst, iter, first) ==
    IF first # <<>> THEN Raised("blocked", first[1], first[2])
    ELSE LET s == uvisitEach(UninstallGraph(r, inst), Range(tg), inst, iter, UninstallStart)
         IN  IF s.err.kind # "none" THEN s.err
             ELSE Returned(UninstallResult(inst, s.order))

\* resolve_uninstall_order with a failing lookup of an installed package
\* left to propagate
resolve_uninstall_order_strict(tg, r, inst, iter, first) ==
    IF \E n \in DOMAIN inst : ~r[n].found
    THEN Raised("notfound", CHOOSE n \in DOMAIN inst : ~r[n].found, "")
    ELSE IF first # <<>> THEN Raised("blocked", first[1], first[2])
    ELSE LET s == uvisitEach(UninstallGraph(r, inst), Range(tg), inst, iter, UninstallStart)
         IN  IF s.err.kind # "none" THEN s.err
             ELSE Returned(UninstallResult(inst, Reverse(s.order)))

\* first is the pair the reverse-dependency check raised at (or <<>>)
resolve_uninstall_order(tg, r, inst, iter, first) ==
    IF first # <<>> THEN Raised("blocked", first[1], first[2])
    ELSE LET s == uvisitEach(UninstallGraph(r, inst), Range(tg), inst, iter, UninstallStart)
         IN  IF s.err.kind # "none" THEN s.err
             ELSE Returned(UninstallResult(inst, Reverse(s.order)))

(***************************************************************************)
(* The operator's answers (src/core/executor.py)                           *)
(*                                                                         *)
(* A line of input is a sequence of characters.  Both prompts read         *)
(* input(prompt).strip().lower() and match the result.                     *)
(***************************************************************************)
Whitespace == {" ", "\t"}

RECURSIVE LStrip(_)
LStrip(s) == IF s # <<>> /\ Head(s) \in Whitespace THEN LStrip(Tail(s)) ELSE s

\* str.strip(): leading and trailing whitespace removed
Strip(s) == Reverse(LStrip(Reverse(LStrip(s))))

LowerChar(c) ==
    CASE c = "Y" -> "y" [] c = "E" -> "e" [] c = "S" -> "s"
      [] c = "N" -> "n" [] c = "O" -> "o" [] c = "R" -> "r"
      [] OTHER -> c

\* str.lower()
Lower(s) == [k \in 1..Len(s) |-> LowerChar(s[k])]

\* the lines the operator may type
Lines ==
    { <<"y">>, <<" ", "Y", "E", "S">>, <<"n">>, <<"N", "o", " ">>, <<>>, <<" ", "\t">>,
      <<"r">>, <<"R", " ">>, <<"s">>, <<" ", "S">> }

\* query_before_action's match with an empty answer taken for a yes
MatchQuery_default_yes(text) ==
    IF text \in {<<"y">>, <<"y", "e", "s">>, <<>>} THEN "yes"
    ELSE IF text \in {<<"n">>, <<"n", "o">>} THEN "no"
    ELSE "invalid"

\* query_before_action's match: "yes" to proceed, "no" to skip, "invalid" to ask again
MatchQuery(text) ==
    IF text \in {<<"y">>, <<"y", "e", "s">>} THEN "yes"
    ELSE IF text \in {<<"n">>, <<"n", "o">>, <<>>} THEN "no"
    ELSE "invalid"

\* deal_with_failure's match: "retry" (return True), "skip" (return False),
\* "invalid" to go round its loop again
MatchFailure(text) ==
    IF text = <<"r">> THEN "retry"
    ELSE IF text = <<"s">> THEN "skip"
    ELSE "invalid"

(***************************************************************************)
(* Executor.run (src/core/executor.py)                                     *)
(*                                                                         *)
(* The actions of the sequence are 1..nActions.  What check returns, and   *)
(* whether run and rollback return or raise, is the environment's choice.  *)
(* epc is                                                                  *)
(*   "idle"     no run of the executor is in progress                      *)
(*   "loop"     at the head of the for loop of Executor.run                *)
(*   "query"    in query_before_action, waiting in input()                 *)
(*   "run"      in run_action, about to call act.run()                     *)
(*   "failed"   in deal_with_failure, at the head of its loop              *)
(*   "ask"      in deal_with_failure, waiting in input()                   *)
(*   "returned" Executor.run has returned                                  *)
(***************************************************************************)
Event(ev, act, val) == [ev |-> ev, act |-> act, val |-> val]

\* what is printed in a dry run before any plan entry has been reached
NoShown == [name |-> "", needed |-> <<>>, described |-> {}]

\* no write is in progress
NoIo == [phase |-> "idle", old |-> <<>>, res |-> <<>>, written |-> 0]

\* the action variables while no action instance is studied
ActionIdle ==
    /\ cls = ""
    /\ args = <<>>
    /\ self = <<>>
    /\ node = <<>>
    /\ tmp = <<>>
    /\ system = {}
    /\ calls = <<>>
    /\ io = NoIo

\* the driver variables while no command is studied
DriverIdle ==
    /\ command = "none"
    /\ dry_run = FALSE
    /\ ncmd = 0
    /\ disk = <<>>
    /\ st = <<>>
    /\ plan = <<>>
    /\ pidx = 0
    /\ dpc = "start"
    /\ exit = ""
    /\ dlog = <<>>
    /\ shown = NoShown

\* the executor variables while no run is in progress
ExecIdle ==
    /\ nActions = 0
    /\ no_confirm = FALSE
    /\ cur = 0
    /\ epc = "idle"
    /\ rollback_succeeded = FALSE
    /\ answers = 0
    /\ trace = <<>>
    /\ ret = ""
    /\ stderr = <<>>

\* Executor.run(actions, no_confirm) is called
ExecStart(n, nc) ==
    /\ nActions = n
    /\ no_confirm = nc
    /\ cur = 1
    /\ epc = "loop"
    /\ rollback_succeeded = FALSE
    /\ answers = 0
    /\ trace = <<>>
    /\ ret = ""
    /\ stderr = <<>>

\* the loop without "if not act.check(): continue"
AfterCheck_unchecked(needed) ==
    IF no_confirm THEN [epc |-> "run", cur |-> cur]
    ELSE [epc |-> "query", cur |-> cur]

\* the loop with "return" in the place of "continue" after a false check
AfterCheck_return(needed) ==
    IF ~needed THEN [epc |-> "loop", cur |-> nActions + 1]
    ELSE IF no_confirm THEN [epc |-> "run", cur |-> cur]
    ELSE [epc |-> "query", cur |-> cur]

\* where the loop goes after act.check() returned needed
AfterCheck(needed) ==
    IF ~needed THEN [epc |-> "loop", cur |-> cur + 1]
    ELSE IF no_confirm THEN [epc |-> "run", cur |-> cur]
    ELSE [epc |-> "query", cur |-> cur]

\* for act in actions: if not act.check(): continue; ...
ExecCheck(needed) ==
    /\ epc = "loop" /\ cur <= nActions
    /\ trace' = Append(trace, Event("check", cur, needed))
    /\ epc' = AfterCheck(needed).epc
    /\ cur' = AfterCheck(needed).cur
    /\ UNCHANGED <<nActions, no_confirm, rollback_succeeded, answers, ret, stderr>>
    /\ UNCHANGED <<resolverVars, driverVars, actionVars>>

\* the loop is over: Executor.run returns (None)
ExecReturn ==
    /\ epc = "loop" /\ cur > nActions
    /\ epc' = "returned"
    /\ ret' = "None"
    /\ UNCHANGED <<nActions, no_confirm, cur, rollback_succeeded, answers, trace, stderr>>
    /\ UNCHANGED <<resolverVars, driverVars, actionVars>>

\* where query_before_action leaves the executor after the operator's text
AfterQuery(text) ==
    CASE MatchQuery(text) = "yes" -> [epc |-> "run", cur |-> cur]
      [] MatchQuery(text) = "no" -> [epc |-> "loop", cur |-> cur + 1]
      [] OTHER -> [epc |-> "query", cur |-> cur]

\* query_before_action reads a line
ExecQuery(line) ==
    /\ epc = "query" /\ answers < MaxAnswers
    /\ answers' = answers + 1
    /\ trace' = Append(trace, Event("query", cur, Lower(Strip(line))))
    /\ epc' = AfterQuery(Lower(Strip(line))).epc
    /\ cur' = AfterQuery(Lower(Strip(line))).cur
    /\ UNCHANGED <<nActions, no_confirm, rollback_succeeded, ret, stderr>>
    /\ UNCHANGED <<resolverVars, driverVars, actionVars>>

\* where run_action goes after act.run() returned (ok) or raised
AfterRun(ok) ==
    IF ok THEN [epc |-> "loop", cur |-> cur + 1]
    ELSE [epc |-> "failed", cur |-> cur]

\* run_action calls act.run(); when it raises, deal_with_failure is entered
ExecRun(ok) ==
    /\ epc = "run"
    /\ trace' = Append(trace, Event("run", cur, ok))
    /\ epc' = AfterRun(ok).epc
    /\ cur' = AfterRun(ok).cur
    /\ rollback_succeeded' = IF ok THEN rollback_succeeded ELSE FALSE
    /\ UNCHANGED <<nActions, no_confirm, answers, ret, stderr>>
    /\ UNCHANGED <<resolverVars, driverVars, actionVars>>

\* a line of sys.stderr: what it reports, and the action it is about
Report(what, act) == [what |-> what, act |-> act]

\* deal_with_failure without the try around act.rollback(): an exception of
\* rollback leaves the executor
AfterRollback_raise(ok) == IF ok THEN "ask" ELSE "raised"

\* try: act.rollback() ... except Exception: the exception is caught, and
\* deal_with_failure goes on to its prompt either way
AfterRollback(ok) == "ask"

\* deal_with_failure reports the failure of run, calls act.rollback(), which
\* returns (ok) or raises, reports a rollback that raised, and then prompts
ExecRollback(ok) ==
    /\ epc = "failed"
    /\ trace' = Append(trace, Event("rollback", cur, ok))
    /\ stderr' = stderr \o <<Report("Action failed", cur)>>
                        \o (IF ok THEN <<>> ELSE <<Report("Action rollback failed", cur)>>)
    /\ rollback_succeeded' = (rollback_succeeded \/ ok)
    /\ epc' = AfterRollback(ok)
    /\ UNCHANGED <<nActions, no_confirm, cur, answers, ret>>
    /\ UNCHANGED <<resolverVars, driverVars, actionVars>>

\* deal_with_failure with a skip that gives up the rest of the sequence
AfterFailure_abort(text) ==
    CASE MatchFailure(text) = "retry" -> [epc |-> "run", cur |-> cur]
      [] MatchFailure(text) = "skip" -> [epc |-> "loop", cur |-> nActions + 1]
      [] OTHER -> [epc |-> "failed", cur |-> cur]

\* where deal_with_failure leaves the executor after the operator's text
AfterFailure(text) ==
    CASE MatchFailure(text) = "retry" -> [epc |-> "run", cur |-> cur]
      [] MatchFailure(text) = "skip" -> [epc |-> "loop", cur |-> cur + 1]
      [] OTHER -> [epc |-> "failed", cur |-> cur]

\* deal_with_failure reads a line
ExecAnswer(line) ==
    /\ epc = "ask" /\ answers < MaxAnswers
    /\ answers' = answers + 1
    /\ trace' = Append(trace, Event("answer", cur, Lower(Strip(line))))
    /\ epc' = AfterFailure(Lower(Strip(line))).epc
    /\ cur' = AfterFailure(Lower(Strip(line))).cur
    /\ UNCHANGED <<nActions, no_confirm, rollback_succeeded, ret, stderr>>
    /\ UNCHANGED <<resolverVars, driverVars, actionVars>>

ExecNext ==
    \/ \E needed \in BOOLEAN : ExecCheck(needed)
    \/ \E line \in Lines : ExecQuery(line)
    \/ \E ok \in BOOLEAN : ExecRun(ok)
    \/ \E ok \in BOOLEAN : ExecRollback(ok)
    \/ \E line \in Lines : ExecAnswer(line)
    \/ ExecReturn

\* a line that the prompt of query_before_action / deal_with_failure accepts
ValidQuery(line) == MatchQuery(Lower(Strip(line))) # "invalid"

ValidAnswer(line) == MatchFailure(Lower(Strip(line))) # "invalid"

\* The executor with an operator who may type a rejected line, and an action
\* whose run may raise, MaxAnswers times in all: an accepted line and a run
\* that returns stay possible after that.
LiveQuery(line) ==
    /\ epc = "query" /\ (answers < MaxAnswers \/ ValidQuery(line))
    /\ answers' = answers + 1
    /\ trace' = Append(trace, Event("query", cur, Lower(Strip(line))))
    /\ epc' = AfterQuery(Lower(Strip(line))).epc
    /\ cur' = AfterQuery(Lower(Strip(line))).cur
    /\ UNCHANGED <<nActions, no_confirm, rollback_succeeded, ret, stderr>>
    /\ UNCHANGED <<resolverVars, driverVars, actionVars>>

LiveRun(ok) ==
    /\ ok \/ answers < MaxAnswers
    /\ ExecRun(ok)

LiveAnswer(line) ==
    /\ epc = "ask" /\ (answers < MaxAnswers \/ ValidAnswer(line))
    /\ answers' = answers + 1
    /\ trace' = Append(trace, Event("answer", cur, Lower(Strip(line))))
    /\ epc' = AfterFailure(Lower(Strip(line))).epc
    /\ cur' = AfterFailure(Lower(Strip(line))).cur
    /\ UNCHANGED <<nActions, no_confirm, rollback_succeeded, ret, stderr>>
    /\ UNCHANGED <<resolverVars, driverVars, actionVars>>

\* the lines of one character: an accepted and a rejected line for either
\* prompt, without the variants of case and whitespace
LiveLines == {l \in Lines : Len(l) = 1}

LiveNext ==
    \/ \E needed \in BOOLEAN : ExecCheck(needed)
    \/ \E line \in LiveLines : LiveQuery(line)
    \/ \E ok \in BOOLEAN : LiveRun(ok)
    \/ \E ok \in BOOLEAN : ExecRollback(ok)
    \/ \E line \in LiveLines : LiveAnswer(line)
    \/ ExecReturn

\* a step of the executor other than reading a rejected line: the calls on
\* the actions return, and at a prompt the operator types an accepted line
LiveProgress ==
    \/ \E needed \in BOOLEAN : ExecCheck(needed)
    \/ \E line \in LiveLines : ValidQuery(line) /\ LiveQuery(line)
    \/ \E ok \in BOOLEAN : LiveRun(ok)
    \/ \E ok \in BOOLEAN : ExecRollback(ok)
    \/ \E line \in LiveLines : ValidAnswer(line) /\ LiveAnswer(line)
    \/ ExecReturn

\* the resolver variables while only the executor is studied
ResolverIdle ==
    /\ repo = [n \in Names |-> NoPackage]
    /\ targets = <<>>
    /\ installed = <<>>
    /\ call = "none"
    /\ outcome = NoOutcome

ExecInit ==
    /\ ResolverIdle
    /\ DriverIdle
    /\ ActionIdle
    /\ \E n \in 0..MaxActions, nc \in BOOLEAN : ExecStart(n, nc)

\* Executor.run on every sequence of at most MaxActions actions, under both
\* values of no_confirm
SpecExecutor == ExecInit /\ [][ExecNext]_vars

LiveInit ==
    /\ ResolverIdle
    /\ DriverIdle
    /\ ActionIdle
    /\ \E n \in 0..MaxActions : ExecStart(n, FALSE)

\* Executor.run(actions) with calls that return and an operator who, at every
\* prompt, comes to type a line the prompt accepts
SpecExecutorLive == LiveInit /\ [][LiveNext]_vars /\ WF_vars(LiveProgress)

(***************************************************************************)
(* The inputs and the calls                                                *)
(***************************************************************************)
\* dependency lists without a repeated name
DepLists == {d \in SeqsUpTo(Names, MaxEdges) : NoRepeat(d)}

Definitions == {NoPackage} \cup {Package(RepoVersion, d) : d \in DepLists}

RECURSIVE SumLen(_, _)
SumLen(r, S) == IF S = {} THEN 0 ELSE LET n == CHOOSE n \in S : TRUE IN Len(r[n].dependencies) + SumLen(r, S \ {n})

Repos == {r \in [Names -> Definitions] : SumLen(r, Names) <= MaxEdges}

TargetLists == SeqsUpTo(Names, MaxTargets)

Ledgers == UNION {[S -> LedgerVersions] : S \in SUBSET Names}

\* the ledgers whose entries all hold the same version: resolve_uninstall_order
\* reads a ledger's versions only to build the leaf of a package without a
\* definition, and never compares them
UniformLedgers == {l \in Ledgers : \A n, m \in DOMAIN l : l[n] = l[m]}

\* the inputs of a resolver call, before the call
ResolverInit(ledgers) ==
    /\ repo \in Repos
    /\ targets \in TargetLists
    /\ installed \in ledgers
    /\ call = "none"
    /\ outcome = NoOutcome
    /\ ExecIdle
    /\ DriverIdle
    /\ ActionIdle

\* the two containers a resolver was handed, after a visit that does
\* installed.setdefault(name, "") where the code does installed.get(name, "")
InputsAfter_setdefault(tg, inst) ==
    [targets |-> tg,
     installed |-> [n \in DOMAIN inst \cup Range(tg) |->
                       IF n \in DOMAIN inst THEN inst[n] ELSE ""]]

\* the two containers a resolver was handed, after the call: targets is only
\* iterated and copied into a set, installed only read (get, keys, in, [])
InputsAfter(tg, inst) == [targets |-> tg, installed |-> inst]

CallInstall ==
    /\ call = "none"
    /\ call' = "install"
    /\ outcome' = resolve_install_order(targets, repo, installed)
    /\ targets' = InputsAfter(targets, installed).targets
    /\ installed' = InputsAfter(targets, installed).installed
    /\ UNCHANGED repo
    /\ UNCHANGED <<execVars, driverVars, actionVars>>

CallUninstall ==
    /\ call = "none"
    /\ \E iter \in Orders(Range(targets)) :
         \E first \in FirstBlockers(targets, repo, installed, iter) :
            outcome' = resolve_uninstall_order(targets, repo, installed, iter, first)
    /\ call' = "uninstall"
    /\ targets' = InputsAfter(targets, installed).targets
    /\ installed' = InputsAfter(targets, installed).installed
    /\ UNCHANGED repo
    /\ UNCHANGED <<execVars, driverVars, actionVars>>

\* resolve_install_order applied to every input within the bounds
SpecInstall == ResolverInit(Ledgers) /\ [][CallInstall]_vars

\* resolve_uninstall_order applied to every input within the bounds
SpecUninstall == ResolverInit(UniformLedgers) /\ [][CallUninstall]_vars

ResolverNext ==
    \/ CallInstall
    \/ CallUninstall

\* either resolver applied to every repository and target list within the
\* bounds, on the ledgers with one version throughout
SpecResolvers == ResolverInit(UniformLedgers) /\ [][ResolverNext]_vars

(***************************************************************************)
(* The ledger (src/configmgr/core/state.py) and the command drivers        *)
(* (src/cli/main.py).  A command loads the ledger, resolves a plan and     *)
(* loops over it: in a dry run it prints the actions of an entry, else it  *)
(* hands them to the executor and marks the ledger on success; it saves    *)
(* the ledger after the loop.  The run of the executor is one step here:   *)
(* the command waits for it to return.                                     *)
(***************************************************************************)
\* State.mark_installed that keeps the entry a name already has
mark_installed_keep(led, name, version) ==
    [n \in DOMAIN led \cup {name} |-> IF n \in DOMAIN led THEN led[n] ELSE version]

\* State.mark_installed on the mapping st.installed
mark_installed(led, name, version) ==
    [n \in DOMAIN led \cup {name} |-> IF n = name THEN version ELSE led[n]]

\* State.mark_uninstalled on the mapping st.installed
mark_uninstalled(led, name) == [n \in DOMAIN led \ {name} |-> led[n]]

\* sorted(st.installed.keys())
NameOrder == <<"a", "b", "c">>

Sorted(S) == SelectSeq2(NameOrder, S)

DEvent(ev, name, val) == [ev |-> ev, name |-> name, val |-> val]

\* the exception a resolver failure reaches the command as
ExceptionOf(kind) == IF kind = "notfound" THEN "PackageNotFoundError" ELSE "ValueError"

\* return code / uncaught exception: the command is over
Ends(code) == dpc' = "ended" /\ exit' = code

\* the plan is resolved: the command returns at once or enters its loop
EntersLoop(p) ==
    /\ plan' = p
    /\ dpc' = "loop"
    /\ exit' = ""

\* cmd_install up to its loop
cmd_install ==
    /\ dpc = "start" /\ command = "install"
    /\ IF targets = <<>>
       THEN /\ Ends("0")
            /\ UNCHANGED <<st, installed, call, outcome, plan>>
       ELSE /\ st' = disk
            /\ installed' = disk
            /\ call' = "install"
            /\ outcome' = resolve_install_order(targets, repo, disk)
            /\ IF outcome'.kind # "plan"
               THEN Ends(ExceptionOf(outcome'.kind)) /\ UNCHANGED plan
               ELSE IF outcome'.plan = <<>>
               THEN Ends("0") /\ UNCHANGED plan
               ELSE EntersLoop(outcome'.plan)
    /\ UNCHANGED <<repo, targets, command, dry_run, ncmd, disk, pidx, dlog, shown>>
    /\ UNCHANGED <<execVars, actionVars>>

\* cmd_update up to its loop
cmd_update ==
    /\ dpc = "start" /\ command = "update"
    /\ st' = disk
    /\ targets' = IF targets = <<>> THEN Sorted(DOMAIN disk) ELSE targets
    /\ IF targets' = <<>>
       THEN /\ Ends("0")
            /\ UNCHANGED <<installed, call, outcome, plan>>
       ELSE /\ installed' = disk
            /\ call' = "install"
            /\ outcome' = resolve_install_order(targets', repo, disk)
            /\ IF outcome'.kind # "plan"
               THEN Ends(ExceptionOf(outcome'.kind)) /\ UNCHANGED plan
               ELSE IF outcome'.plan = <<>>
               THEN Ends("0") /\ UNCHANGED plan
               ELSE EntersLoop(outcome'.plan)
    /\ UNCHANGED <<repo, command, dry_run, ncmd, disk, pidx, dlog, shown>>
    /\ UNCHANGED <<execVars, actionVars>>

\* cmd_uninstall without its check of the targets against the ledger
missing_none(tg, led) == {}

\* missing = [t for t in targets if t not in installed]
missing(tg, led) == {t \in Range(tg) : t \notin DOMAIN led}

\* cmd_uninstall up to its loop
cmd_uninstall ==
    /\ dpc = "start" /\ command = "uninstall"
    /\ IF targets = <<>>
       THEN /\ Ends("0")
            /\ UNCHANGED <<st, installed, call, outcome, plan>>
       ELSE /\ st' = disk
            /\ installed' = disk
            /\ IF missing(targets, disk) # {}
               THEN /\ Ends("1")
                    /\ UNCHANGED <<call, outcome, plan>>
               ELSE /\ call' = "uninstall"
                    /\ \E iter \in Orders(Range(targets)) :
                         \E first \in FirstBlockers(targets, repo, disk, iter) :
                            outcome' = resolve_uninstall_order(targets, repo, disk, iter, first)
                    /\ IF outcome'.kind # "plan"
                       THEN Ends("1") /\ UNCHANGED plan
                       ELSE EntersLoop(outcome'.plan)
    /\ UNCHANGED <<repo, targets, command, dry_run, ncmd, disk, pidx, dlog, shown>>
    /\ UNCHANGED <<execVars, actionVars>>

\* the loop taking the entries of the plan from its end
Entry_reversed(k) == plan[Len(plan) + 1 - k]

\* "for pkg, op in plan": the entry of the k-th turn of the loop
Entry(k) == plan[k]

\* the loop takes the next plan entry and hands its actions to ex.run
DriverRun ==
    /\ dpc = "loop" /\ pidx < Len(plan) /\ ~dry_run
    /\ pidx' = pidx + 1
    /\ dpc' = "executor"
    /\ dlog' = Append(dlog, DEvent("run", Entry(pidx + 1).name, Entry(pidx + 1).op))
    /\ UNCHANGED <<command, dry_run, ncmd, disk, st, plan, exit, shown>>
    /\ UNCHANGED <<resolverVars, execVars, actionVars>>

\* the loop takes the next plan entry in a dry run: one line is printed for
\* every action of the entry, with the action's describe(); needed is what
\* check() of each action would answer (it is not called)
DriverDryRun(needed) ==
    /\ dpc = "loop" /\ pidx < Len(plan) /\ dry_run
    /\ pidx' = pidx + 1
    /\ shown' = [name |-> Entry(pidx + 1).name, needed |-> needed,
                 described |-> 1..Len(needed)]
    /\ UNCHANGED <<command, dry_run, ncmd, disk, st, plan, dpc, exit, dlog>>
    /\ UNCHANGED <<resolverVars, execVars, actionVars>>

\* the loop is over: st.save() and return 0
DriverFinish ==
    /\ dpc = "loop" /\ pidx = Len(plan)
    /\ disk' = st
    /\ dlog' = Append(dlog, DEvent("save", "", ""))
    /\ Ends("0")
    /\ UNCHANGED <<command, dry_run, ncmd, st, plan, pidx, shown>>
    /\ UNCHANGED <<resolverVars, execVars, actionVars>>

\* "ok, msg = ex.run(actions)" with the Executor of src/core/executor.py:
\* run returns None once it is through the sequence (did says whether every
\* action was applied or the operator skipped one), and unpacking None raises
\* TypeError
DriverUnpackFails(did) ==
    /\ dpc = "executor"
    /\ dlog' = dlog \o <<DEvent("executor", Entry(pidx).name, did),
                         DEvent("returned", Entry(pidx).name, "None")>>
    /\ Ends("TypeError")
    /\ UNCHANGED <<command, dry_run, ncmd, disk, st, plan, pidx, shown>>
    /\ UNCHANGED <<resolverVars, execVars, actionVars>>

\* "ok, msg = ex.run(actions)" with an executor that reports (ok, msg), and
\* the lines after it: return 1 on failure, else mark the ledger
DriverReport(ok) ==
    /\ dpc = "executor"
    /\ IF ok
       THEN /\ st' = IF command = "uninstall"
                     THEN mark_uninstalled(st, Entry(pidx).name)
                     ELSE mark_installed(st, Entry(pidx).name, repo[Entry(pidx).name].version)
            /\ dlog' = dlog \o <<DEvent("executor", Entry(pidx).name, "applied"),
                                 DEvent("returned", Entry(pidx).name, "ok"),
                                 DEvent("mark", Entry(pidx).name, Entry(pidx).op)>>
            /\ dpc' = "loop"
            /\ UNCHANGED exit
       ELSE /\ dlog' = dlog \o <<DEvent("executor", Entry(pidx).name, "rolled back"),
                                 DEvent("returned", Entry(pidx).name, "failed")>>
            /\ Ends("1")
            /\ UNCHANGED st
    /\ UNCHANGED <<command, dry_run, ncmd, disk, plan, pidx, shown>>
    /\ UNCHANGED <<resolverVars, execVars, actionVars>>

\* what check() of the actions of a plan entry may answer
Needs == SeqsUpTo(BOOLEAN, MaxActions)

\* the repositories, the command lines (no name given twice) and the ledgers
\* a command is run on
DriverRepos == {r \in Repos : SumLen(r, Names) <= MaxDriverEdges}

DriverTargets == {t \in TargetLists : NoRepeat(t)}

\* a command line and the files it finds
DriverInit(dry, ledgers) ==
    /\ repo \in DriverRepos
    /\ targets \in DriverTargets
    /\ disk \in ledgers
    /\ command \in {"install", "uninstall", "update"}
    /\ dry_run = dry
    /\ ncmd = 1
    /\ installed = <<>>
    /\ call = "none"
    /\ outcome = NoOutcome
    /\ st = <<>>
    /\ plan = <<>>
    /\ pidx = 0
    /\ dpc = "start"
    /\ exit = ""
    /\ dlog = <<>>
    /\ shown = NoShown
    /\ ExecIdle
    /\ ActionIdle

DriverNext ==
    \/ cmd_install
    \/ cmd_update
    \/ cmd_uninstall
    \/ DriverRun
    \/ \E did \in {"applied", "skipped"} : DriverUnpackFails(did)

\* one command without --dry-run, with the Executor of src/core/executor.py
\* (the loop of such a command never gets past its first entry, so that
\* DriverFinish is not a step of it)
SpecDriver == DriverInit(FALSE, Ledgers) /\ [][DriverNext]_vars

DryRunNext ==
    \/ cmd_install
    \/ cmd_update
    \/ cmd_uninstall
    \/ \E needed \in Needs : DriverDryRun(needed)
    \/ DriverFinish

\* one command with --dry-run.  A dry run writes no ledger entry and the
\* versions of the ledger only choose between the install and the update
\* list of an entry, so the ledgers with one version throughout are drawn.
SpecDryRun == DriverInit(TRUE, UniformLedgers) /\ [][DryRunNext]_vars

\* what the batch executor of the specification reports to its caller: the
\* success flag of its (ok, msg) result
ExecutorReports == {TRUE, FALSE}

ReportingNext ==
    \/ cmd_install
    \/ cmd_update
    \/ cmd_uninstall
    \/ DriverRun
    \/ \E ok \in ExecutorReports : DriverReport(ok)
    \/ DriverFinish

\* one command without --dry-run, with an executor that reports (ok, msg) as
\* the commands expect of ex.run
SpecReporting == DriverInit(FALSE, Ledgers) /\ [][ReportingNext]_vars

(***************************************************************************)
(* The actions (src/core/action.py, src/configmgr/core/action.py) and the  *)
(* file helpers they call (src/configmgr/utils/fs.py).  One instance is    *)
(* studied at a time: node is what the file system holds at its path, tmp  *)
(* what it holds at the path with ".tmp" appended.  The parent directory   *)
(* exists or can be made.  A file holds bytes; "CR" and "LF" are the two   *)
(* line-ending bytes, "x" any other.  A str holds the same three as        *)
(* characters.                                                             *)
(***************************************************************************)
Chars == {"x", "CR", "LF"}

\* the contents a file may have when the instance is constructed
Texts == SeqsUpTo(Chars, MaxLen)

\* the texts an instance may be constructed with
ArgTexts == SeqsUpTo(Chars, MaxArg)

\* Optional[...]
None == [some |-> FALSE, val |-> <<>>]
Some(v) == [some |-> TRUE, val |-> v]

\* what a path may hold
Absent == [kind |-> "absent", data |-> <<>>, full |-> FALSE]
File(data) == [kind |-> "file", data |-> data, full |-> FALSE]
Dir(full) == [kind |-> "dir", data |-> <<>>, full |-> full]

Nodes == {Absent} \cup {File(d) : d \in Texts} \cup {Dir(f) : f \in BOOLEAN}

\* Path.exists()
exists(n) == n.kind # "absent"

\* Path.read_text(encoding="utf-8"): text mode, universal newlines
RECURSIVE path_read_text(_)
path_read_text(b) ==
    IF b = <<>> THEN <<>>
    ELSE IF b[1] = "CR"
         THEN IF Len(b) >= 2 /\ b[2] = "LF"
              THEN <<"LF">> \o path_read_text(SubSeq(b, 3, Len(b)))
              ELSE <<"LF">> \o path_read_text(Tail(b))
         ELSE <<b[1]>> \o path_read_text(Tail(b))

\* str.encode("utf-8"): every character of the model is one byte
encode(t) == t

\* fs.read_text raises on a directory (only FileNotFoundError is caught)
ReadRaises(n) == n.kind = "dir"

\* fs.read_text, where it does not raise
read_text(n) ==
    IF n.kind = "absent" THEN None ELSE Some(path_read_text(n.data))

\* the index of the first line ending of t, 0 if it has none
FirstBreak(t) ==
    IF \E i \in 1..Len(t) : t[i] \in {"CR", "LF"}
    THEN CHOOSE i \in 1..Len(t) :
             /\ t[i] \in {"CR", "LF"}
             /\ \A j \in 1..(i - 1) : t[j] \notin {"CR", "LF"}
    ELSE 0

\* str.splitlines()
RECURSIVE splitlines(_)
splitlines(t) ==
    IF t = <<>> THEN <<>>
    ELSE LET k == FirstBreak(t)
         IN  IF k = 0 THEN <<t>>
             ELSE LET e == IF t[k] = "CR" /\ k < Len(t) /\ t[k + 1] = "LF"
                           THEN k + 1 ELSE k
                  IN  <<SubSeq(t, 1, k - 1)>> \o splitlines(SubSeq(t, e + 1, Len(t)))

\* "\n".join(lines)
RECURSIVE join(_)
join(lines) ==
    IF lines = <<>> THEN <<>>
    ELSE IF Len(lines) = 1 THEN lines[1]
    ELSE lines[1] \o <<"LF">> \o join(Tail(lines))

\* "\n".join(lines) + ("\n" if lines else "")
JoinLines(lines) == IF lines = <<>> THEN <<>> ELSE join(lines) \o <<"LF">>

\* str.endswith
endswith(t, suffix) ==
    /\ Len(t) >= Len(suffix)
    /\ SubSeq(t, Len(t) - Len(suffix) + 1, Len(t)) = suffix

\* what a method leaves: the instance fields, the two paths, what it
\* returned, whether it raised, and whether it wrote to a file
Res(s, n, t, result, raised, wrote) ==
    [self |-> s, node |-> n, tmp |-> t, result |-> result, raised |-> raised,
     wrote |-> wrote]

\* fs.atomic_write: tmp.write_bytes(data), then os.replace(tmp, path),
\* which raises when path is a directory
atomic_write(s, n, t, data) ==
    IF n.kind = "dir"
    THEN Res(s, n, File(data), FALSE, TRUE, TRUE)
    ELSE Res(s, File(data), Absent, FALSE, FALSE, TRUE)

\* a try: ... except Exception: pass around what left r
Swallow(r) == [r EXCEPT !.raised = FALSE]

\* the assignment to the fields that follows a call, reached unless it raised
AndSet(r, s) == IF r.raised THEN r ELSE [r EXCEPT !.self = s]

\* a method that returns result and touches nothing
Returns(s, n, t, result) == Res(s, n, t, result, FALSE, FALSE)

\* a method that raises before it has touched anything
Raises(s, n, t) == Res(s, n, t, FALSE, TRUE, FALSE)

\* str.rstrip("\n")
RECURSIVE rstrip(_)
rstrip(t) ==
    IF t # <<>> /\ t[Len(t)] = "LF" THEN rstrip(SubSeq(t, 1, Len(t) - 1)) ELSE t

\* lines[:-1]
ButLast(lines) == SubSeq(lines, 1, Len(lines) - 1)

\* [ln for ln in lines if ln != line]
WithoutAll(lines, line) == SelectSeq(lines, LAMBDA ln : ln # line)

\* lines with the last occurrence of line deleted (lines when it has none)
WithoutLast(lines, line) ==
    IF \E i \in 1..Len(lines) : lines[i] = line
    THEN LET k == CHOOSE i \in 1..Len(lines) :
                      /\ lines[i] = line
                      /\ \A j \in (i + 1)..Len(lines) : lines[j] # line
         IN  SubSeq(lines, 1, k - 1) \o SubSeq(lines, k + 1, Len(lines))
    ELSE lines

\* fs.ensure_dir(path, exist_ok=True): mkdir raises when path is a file
ensure_dir(s, n, t) ==
    IF n.kind = "file" THEN Raises(s, n, t)
    ELSE IF n.kind = "dir" THEN Returns(s, n, t, FALSE)
    ELSE Returns(s, Dir(FALSE), t, FALSE)

(***************************************************************************)
(* CreateDir                                                               *)
(***************************************************************************)
CreateDir_init == [created |-> FALSE]

CreateDir_check(a, s, n, t) == Returns(s, n, t, ~exists(n))

CreateDir_run(a, s, n, t) == AndSet(ensure_dir(s, n, t), [s EXCEPT !.created = TRUE])

CreateDir_rollback(a, s, n, t) ==
    IF s.created /\ n.kind = "dir" /\ ~n.full
    THEN Returns(s, Absent, t, FALSE)
    ELSE Returns(s, n, t, FALSE)

(***************************************************************************)
(* DeleteDir                                                               *)
(***************************************************************************)
DeleteDir_init == [_removed |-> FALSE]

DeleteDir_check(a, s, n, t) == Returns(s, n, t, exists(n))

DeleteDir_run(a, s, n, t) ==
    IF n.kind = "dir" /\ ~n.full
    THEN Returns([s EXCEPT !._removed = TRUE], Absent, t, FALSE)
    ELSE Returns(s, n, t, FALSE)

DeleteDir_rollback(a, s, n, t) ==
    IF s._removed THEN ensure_dir(s, n, t) ELSE Returns(s, n, t, FALSE)

(***************************************************************************)
(* DeleteFile                                                              *)
(***************************************************************************)
DeleteFile_init == [_backup |-> None, _existed |-> FALSE]

DeleteFile_check(a, s, n, t) == Returns(s, n, t, exists(n))

\* the backup is taken with read_bytes
DeleteFile_run(a, s, n, t) ==
    IF n.kind = "file"
    THEN Returns([s EXCEPT !._existed = TRUE, !._backup = Some(n.data)], Absent, t, FALSE)
    ELSE Returns(s, n, t, FALSE)

DeleteFile_rollback(a, s, n, t) ==
    IF s._existed /\ s._backup.some
    THEN atomic_write(s, n, t, s._backup.val)
    ELSE Returns(s, n, t, FALSE)

(***************************************************************************)
(* AppendFile(path, line)                                                  *)
(***************************************************************************)
AppendFile_init == [_appended |-> FALSE]

AppendFile_check(a, s, n, t) ==
    IF ReadRaises(n) THEN Raises(s, n, t)
    ELSE IF ~read_text(n).some THEN Returns(s, n, t, TRUE)
    ELSE Returns(s, n, t, ~endswith(read_text(n).val, a \o <<"LF">>))

\* the line is written to the file itself, opened in append mode
AppendFile_run(a, s, n, t) ==
    IF n.kind = "dir" THEN Raises(s, n, t)
    ELSE Res([s EXCEPT !._appended = TRUE], File(n.data \o encode(a \o <<"LF">>)), t,
             FALSE, FALSE, TRUE)

AppendFile_rollback(a, s, n, t) ==
    IF ~s._appended \/ n.kind # "file" THEN Returns(s, n, t, FALSE)
    ELSE LET lines == splitlines(path_read_text(n.data))
         IN  IF lines # <<>> /\ lines[Len(lines)] = a
             THEN Swallow(atomic_write(s, n, t, encode(JoinLines(ButLast(lines)))))
             ELSE Returns(s, n, t, FALSE)

(***************************************************************************)
(* EnsureLinePresent(path, line)                                           *)
(***************************************************************************)
EnsureLinePresent_init == [_appended |-> FALSE]

EnsureLinePresent_check(a, s, n, t) ==
    IF ReadRaises(n) THEN Raises(s, n, t)
    ELSE IF ~read_text(n).some THEN Returns(s, n, t, TRUE)
    ELSE Returns(s, n, t,
                 ~\E i \in 1..Len(splitlines(read_text(n).val)) :
                       splitlines(read_text(n).val)[i] = rstrip(a))

\* the read is inside try/except, so a directory reads as None
EnsureLinePresent_run(a, s, n, t) ==
    LET content == IF ReadRaises(n) THEN None ELSE read_text(n)
        new_content ==
            IF ~content.some \/ content.val = <<>> THEN rstrip(a) \o <<"LF">>
            ELSE IF ~endswith(content.val, <<"LF">>)
                 THEN content.val \o <<"LF">> \o rstrip(a) \o <<"LF">>
                 ELSE content.val \o rstrip(a) \o <<"LF">>
    IN  AndSet(atomic_write(s, n, t, encode(new_content)), [s EXCEPT !._appended = TRUE])

EnsureLinePresent_rollback(a, s, n, t) ==
    IF ~s._appended \/ n.kind # "file" THEN Returns(s, n, t, FALSE)
    ELSE Swallow(atomic_write(s, n, t,
             encode(JoinLines(WithoutLast(splitlines(path_read_text(n.data)), rstrip(a))))))

(***************************************************************************)
(* RemoveLastLine                                                          *)
(***************************************************************************)
RemoveLastLine_init == [_backup |-> None, _changed |-> FALSE]

RemoveLastLine_check(a, s, n, t) == Returns(s, n, t, exists(n))

RemoveLastLine_run(a, s, n, t) ==
    IF ~exists(n) THEN Returns(s, n, t, FALSE)
    ELSE IF ReadRaises(n) THEN Raises(s, n, t)
    ELSE LET backup == read_text(n).val
             lines == splitlines(backup)
             s1 == [s EXCEPT !._backup = Some(backup)]
         IN  IF lines = <<>> THEN Returns(s1, n, t, FALSE)
             ELSE AndSet(atomic_write(s1, n, t, encode(JoinLines(ButLast(lines)))),
                       [s1 EXCEPT !._changed = TRUE])

RemoveLastLine_rollback(a, s, n, t) ==
    IF s._changed /\ s._backup.some
    THEN atomic_write(s, n, t, encode(s._backup.val))
    ELSE Returns(s, n, t, FALSE)

(***************************************************************************)
(* EnsureLineAbsent(path, line, remove_all)                                *)
(***************************************************************************)
EnsureLineAbsent_init == [_backup |-> None]

EnsureLineAbsent_check(a, s, n, t) ==
    IF ReadRaises(n) THEN Raises(s, n, t)
    ELSE IF ~read_text(n).some THEN Returns(s, n, t, FALSE)
    ELSE Returns(s, n, t,
                 \E i \in 1..Len(splitlines(read_text(n).val)) :
                      splitlines(read_text(n).val)[i] = rstrip(a.line))

EnsureLineAbsent_run(a, s, n, t) ==
    IF ReadRaises(n) THEN Raises(s, n, t)
    ELSE IF ~read_text(n).some THEN Returns(s, n, t, FALSE)
    ELSE LET content == read_text(n).val
             lines == splitlines(content)
             new_lines == IF a.remove_all THEN WithoutAll(lines, rstrip(a.line))
                          ELSE WithoutLast(lines, rstrip(a.line))
             s1 == [s EXCEPT !._backup = Some(content)]
         IN  IF new_lines = lines THEN Returns(s1, n, t, FALSE)
             ELSE atomic_write(s1, n, t, encode(JoinLines(new_lines)))

EnsureLineAbsent_rollback(a, s, n, t) ==
    IF ~s._backup.some THEN Returns(s, n, t, FALSE)
    ELSE Swallow(atomic_write(s, n, t, encode(s._backup.val)))

(***************************************************************************)
(* PacmanInstall(packages) and PacmanUninstall(packages).  Their file is   *)
(* INSTALL_PACKAGR, one package name per line; system is what pacman has   *)
(* installed.  "pacman -S --needed" succeeds; "pacman -Rns" fails on a     *)
(* package that is not installed, and subprocess.run(check=True) raises.   *)
(***************************************************************************)
PkgNames == {<<"x">>, <<"x", "x">>}

\* a method of a pacman action: what it leaves, the machine included
PRes(r, sys) == r @@ [system |-> sys]

\* pkg in lines
In(pkg, lines) == \E i \in 1..Len(lines) : lines[i] = pkg

\* list.remove(pkg): the first occurrence goes
Remove(lines, pkg) ==
    LET k == CHOOSE i \in 1..Len(lines) :
                 lines[i] = pkg /\ \A j \in 1..(i - 1) : lines[j] # pkg
    IN  SubSeq(lines, 1, k - 1) \o SubSeq(lines, k + 1, Len(lines))

\* content.splitlines() if content else [], the read inside try/except
InstalledLines(n) ==
    IF n.kind = "file" THEN splitlines(path_read_text(n.data)) ELSE <<>>

PacmanInstall_init == [need_to_install |-> <<>>]

\* the loop of check over packages[k..]
RECURSIVE PacmanInstall_checkFrom(_, _, _, _)
PacmanInstall_checkFrom(a, k, need, sys) ==
    IF k > Len(a) THEN need
    ELSE PacmanInstall_checkFrom(a, k + 1,
             IF a[k] \in sys THEN need ELSE Append(need, a[k]), sys)

PacmanInstall_check(a, s, n, t, sys) ==
    LET need == PacmanInstall_checkFrom(a, 1, s.need_to_install, sys)
    IN  PRes(Returns([s EXCEPT !.need_to_install = need], n, t, need # <<>>), sys)

\* the loop of run over need_to_install[k..]
RECURSIVE PacmanInstall_runFrom(_, _, _, _, _)
PacmanInstall_runFrom(s, k, n, t, sys) ==
    IF k > Len(s.need_to_install) THEN PRes(Returns(s, n, t, FALSE), sys)
    ELSE LET pkg == s.need_to_install[k]
             content == IF ReadRaises(n) THEN None ELSE read_text(n)
             new_content ==
                 IF ~content.some \/ content.val = <<>> THEN pkg \o <<"LF">>
                 ELSE IF ~endswith(content.val, <<"LF">>)
                      THEN content.val \o <<"LF">> \o pkg \o <<"LF">>
                      ELSE content.val \o pkg \o <<"LF">>
             w == atomic_write(s, n, t, encode(new_content))
         IN  IF w.raised THEN PRes(w, sys \cup {pkg})
             ELSE [PacmanInstall_runFrom(s, k + 1, w.node, w.tmp, sys \cup {pkg})
                      EXCEPT !.wrote = TRUE]

PacmanInstall_run(a, s, n, t, sys) ==
    IF a = <<>> THEN PRes(Returns(s, n, t, FALSE), sys)
    ELSE PacmanInstall_runFrom(s, 1, n, t, sys)

\* the command is ["sudo pacman", "-Rns", pkg]: no such program, so
\* subprocess.run raises at the first package found in the file
PacmanInstall_rollback(a, s, n, t, sys) ==
    IF \E k \in 1..Len(s.need_to_install) : In(s.need_to_install[k], InstalledLines(n))
    THEN PRes(Raises(s, n, t), sys)
    ELSE PRes(atomic_write(s, n, t, encode(JoinLines(InstalledLines(n)))), sys)

PacmanUninstall_init == [need_to_remove |-> <<>>]

\* a check that takes every package of the action, recorded or not
PacmanUninstall_checkFrom_all(a, k, need, lines) == need \o SubSeq(a, k, Len(a))

RECURSIVE PacmanUninstall_checkFrom(_, _, _, _)
PacmanUninstall_checkFrom(a, k, need, lines) ==
    IF k > Len(a) THEN need
    ELSE PacmanUninstall_checkFrom(a, k + 1,
             IF In(a[k], lines) THEN Append(need, a[k]) ELSE need, lines)

PacmanUninstall_check(a, s, n, t, sys) ==
    LET need == PacmanUninstall_checkFrom(a, 1, s.need_to_remove, InstalledLines(n))
    IN  PRes(Returns([s EXCEPT !.need_to_remove = need], n, t, need # <<>>), sys)

RECURSIVE PacmanUninstall_runFrom(_, _, _, _, _, _)
PacmanUninstall_runFrom(s, k, n, t, sys, wrote) ==
    IF k > Len(s.need_to_remove) THEN PRes(Res(s, n, t, FALSE, FALSE, wrote), sys)
    ELSE LET pkg == s.need_to_remove[k]
         IN  IF pkg \notin sys THEN PRes(Res(s, n, t, FALSE, TRUE, wrote), sys)
             ELSE IF In(pkg, InstalledLines(n))
                  THEN LET w == atomic_write(s, n, t,
                                    encode(JoinLines(Remove(InstalledLines(n), pkg))))
                       IN  PacmanUninstall_runFrom(s, k + 1, w.node, w.tmp,
                                                   sys \ {pkg}, TRUE)
                  ELSE PacmanUninstall_runFrom(s, k + 1, n, t, sys \ {pkg}, wrote)

PacmanUninstall_run(a, s, n, t, sys) == PacmanUninstall_runFrom(s, 1, n, t, sys, FALSE)

\* the loop of rollback over need_to_remove[k..]: the lines and the machine
RECURSIVE PacmanUninstall_rollbackFrom(_, _, _, _)
PacmanUninstall_rollbackFrom(s, k, lines, sys) ==
    IF k > Len(s.need_to_remove) THEN [lines |-> lines, system |-> sys]
    ELSE LET pkg == s.need_to_remove[k]
         IN  IF In(pkg, lines)
             THEN PacmanUninstall_rollbackFrom(s, k + 1, lines, sys)
             ELSE PacmanUninstall_rollbackFrom(s, k + 1, Append(lines, pkg),
                                               sys \cup {pkg})

PacmanUninstall_rollback(a, s, n, t, sys) ==
    LET r == PacmanUninstall_rollbackFrom(s, 1, InstalledLines(n), sys)
    IN  PRes(atomic_write(s, n, t, encode(JoinLines(r.lines))), r.system)

PacmanClasses == {"PacmanInstall", "PacmanUninstall"}

(***************************************************************************)
(* CreateFile(path, content)                                               *)
(***************************************************************************)
CreateFile_init == [_existed |-> FALSE, _backup |-> None]

CreateFile_check(a, s, n, t) ==
    IF ReadRaises(n) THEN Res(s, n, t, FALSE, TRUE, FALSE)
    ELSE Res(s, n, t, read_text(n) # Some(a), FALSE, FALSE)

CreateFile_run(a, s, n, t) ==
    IF exists(n)
    THEN IF ReadRaises(n)
         THEN Res([s EXCEPT !._existed = TRUE], n, t, FALSE, TRUE, FALSE)
         ELSE atomic_write([s EXCEPT !._existed = TRUE, !._backup = read_text(n)],
                           n, t, encode(a))
    ELSE atomic_write(s, n, t, encode(a))

\* every exception of the body is swallowed
CreateFile_rollback(a, s, n, t) ==
    IF s._existed
    THEN [atomic_write(s, n, t, encode(IF s._backup.some THEN s._backup.val ELSE <<>>))
             EXCEPT !.raised = FALSE]
    ELSE IF n.kind = "file" THEN Res(s, Absent, t, FALSE, FALSE, FALSE)
         ELSE Res(s, n, t, FALSE, FALSE, FALSE)

(***************************************************************************)
(* CreateLink(link_path, target).  A symlink at the path is a node of kind *)
(* "link" whose data is the target it points to.                           *)
(***************************************************************************)
\* the targets a symlink may point to
LinkTargets == {<<"x">>, <<"x", "x">>}

Link(target) == [kind |-> "link", data |-> target, full |-> FALSE]

Links == {Link(g) : g \in LinkTargets}

CreateLink_init == [_existed |-> FALSE, _backup |-> None]

\* fs.is_link_to(link_path, target)
is_link_to(n, target) == n.kind = "link" /\ n.data = target

CreateLink_check(a, s, n, t) == Returns(s, n, t, ~is_link_to(n, a))

\* Path.unlink() raises on a directory; the symlink or the file goes
CreateLink_run(a, s, n, t) ==
    IF n.kind = "absent" THEN Returns(s, Link(a), t, FALSE)
    ELSE IF n.kind = "dir" THEN Raises([s EXCEPT !._existed = TRUE], n, t)
    ELSE Returns([s EXCEPT !._existed = TRUE,
                           !._backup = IF n.kind = "link" THEN Some(n.data) ELSE @],
                 Link(a), t, FALSE)

\* every exception of the body is swallowed: on a directory unlink raises
\* and nothing else is done
CreateLink_rollback(a, s, n, t) ==
    IF n.kind = "dir" THEN Returns(s, n, t, FALSE)
    ELSE IF s._existed /\ s._backup.some
         THEN Returns(s, Link(s._backup.val), t, FALSE)
         ELSE Returns(s, Absent, t, FALSE)

(***************************************************************************)
(* EnsureBlockPresent(path, key, content).  "B" stands for the text of the *)
(* begin marker line, "<prefix> BEGIN MANAGED:<key>", "E" for the text of  *)
(* the end marker line and "SP" for a blank.                               *)
(***************************************************************************)
BlockBegin == <<"B">>
BlockEnd == <<"E">>

\* the number of lines of a file an EnsureBlockPresent is constructed on
MaxLines == 4

\* the lines such a file is made of
BlockLineSet == {<<"x">>, BlockBegin, BlockEnd, <<"SP">> \o BlockBegin}

\* the files: lines joined by newlines, with or without a last newline
BlockTexts ==
    {IF nl THEN JoinLines(ls) ELSE join(ls) :
        ls \in SeqsUpTo(BlockLineSet, MaxLines), nl \in BOOLEAN}

BlockNodes == {Absent, Dir(FALSE)} \cup {File(d) : d \in BlockTexts}

\* the content argument
BlockContents == SeqsUpTo({"x", "LF"}, MaxArg)

\* str.strip()
RECURSIVE strip(_)
strip(ln) ==
    IF ln = <<>> THEN ln
    ELSE IF ln[1] = "SP" THEN strip(Tail(ln))
    ELSE IF ln[Len(ln)] = "SP" THEN strip(SubSeq(ln, 1, Len(ln) - 1))
    ELSE ln

NoBlock == [found |-> FALSE, i |-> 0, j |-> 0]

\* _find_block(text): the indices (from 1) of the begin and end marker lines
_find_block(text) ==
    LET lines == splitlines(text)
        begins == {i \in 1..Len(lines) : strip(lines[i]) = BlockBegin}
    IN  IF begins = {} THEN NoBlock
        ELSE LET i == CHOOSE b \in begins : \A c \in begins : b <= c
                 ends == {j \in (i + 1)..Len(lines) : strip(lines[j]) = BlockEnd}
             IN  IF ends = {} THEN NoBlock
                 ELSE [found |-> TRUE, i |-> i,
                       j |-> CHOOSE e \in ends : \A c \in ends : e <= c]

EnsureBlockPresent_init == [_existed |-> FALSE, _backup |-> None]

\* [begin, *self.content.splitlines(), end], self.content being
\* content.rstrip("\n")
block_lines(a) == <<BlockBegin>> \o splitlines(rstrip(a)) \o <<BlockEnd>>

EnsureBlockPresent_check(a, s, n, t) ==
    IF ReadRaises(n) THEN Raises(s, n, t)
    ELSE LET txt == read_text(n)
         IN  IF ~txt.some THEN Returns(s, n, t, TRUE)
             ELSE LET rng == _find_block(txt.val)
                      lines == splitlines(txt.val)
                  IN  IF ~rng.found THEN Returns(s, n, t, TRUE)
                      ELSE Returns(s, n, t,
                               rstrip(join(SubSeq(lines, rng.i + 1, rng.j - 1)))
                                   # rstrip(a))

\* new_text of run
EnsureBlockPresent_new_text(a, txt) ==
    LET rng == _find_block(txt)
        lines == splitlines(txt)
    IN  IF ~rng.found
        THEN IF txt # <<>> /\ ~endswith(txt, <<"LF">>)
             THEN txt \o <<"LF">> \o join(block_lines(a)) \o <<"LF">>
             ELSE txt \o join(block_lines(a)) \o <<"LF">>
        ELSE join(SubSeq(lines, 1, rng.i - 1) \o block_lines(a)
                      \o SubSeq(lines, rng.j + 1, Len(lines))) \o <<"LF">>

EnsureBlockPresent_run(a, s, n, t) ==
    IF ReadRaises(n) THEN Raises(s, n, t)
    ELSE LET r == read_text(n)
             txt == IF r.some THEN r.val ELSE <<>>
         IN  atomic_write([s EXCEPT !._existed = r.some, !._backup = Some(txt)],
                          n, t, encode(EnsureBlockPresent_new_text(a, txt)))

EnsureBlockPresent_rollback(a, s, n, t) ==
    IF ~s._backup.some THEN Returns(s, n, t, FALSE)
    ELSE Swallow(atomic_write(s, n, t, encode(s._backup.val)))

(***************************************************************************)
(* The methods of the instance under study, called in any order            *)
(***************************************************************************)
Fields(c) ==
    CASE c = "CreateFile" -> CreateFile_init
      [] c = "CreateDir" -> CreateDir_init
      [] c = "DeleteDir" -> DeleteDir_init
      [] c = "DeleteFile" -> DeleteFile_init
      [] c = "AppendFile" -> AppendFile_init
      [] c = "EnsureLinePresent" -> EnsureLinePresent_init
      [] c = "RemoveLastLine" -> RemoveLastLine_init
      [] c = "EnsureLineAbsent" -> EnsureLineAbsent_init
      [] c = "PacmanInstall" -> PacmanInstall_init
      [] c = "PacmanUninstall" -> PacmanUninstall_init
      [] c = "CreateLink" -> CreateLink_init
      [] c = "EnsureBlockPresent" -> EnsureBlockPresent_init

\* the constructor arguments besides the path
ArgsOf(c) ==
    CASE c \in {"CreateFile", "AppendFile", "EnsureLinePresent"} -> ArgTexts
      [] c = "EnsureLineAbsent" -> [line : ArgTexts, remove_all : BOOLEAN]
      [] c \in PacmanClasses -> SeqsUpTo(PkgNames, MaxPkgs)
      [] c = "CreateLink" -> LinkTargets
      [] c = "EnsureBlockPresent" -> BlockContents
      [] OTHER -> {<<>>}

Check(c, a, s, n, t, sys) ==
    CASE c = "PacmanInstall" -> PacmanInstall_check(a, s, n, t, sys)
      [] c = "PacmanUninstall" -> PacmanUninstall_check(a, s, n, t, sys)
      [] c = "CreateLink" -> CreateLink_check(a, s, n, t)
      [] c = "EnsureBlockPresent" -> EnsureBlockPresent_check(a, s, n, t)
      [] c = "CreateFile" -> CreateFile_check(a, s, n, t)
      [] c = "CreateDir" -> CreateDir_check(a, s, n, t)
      [] c = "DeleteDir" -> DeleteDir_check(a, s, n, t)
      [] c = "DeleteFile" -> DeleteFile_check(a, s, n, t)
      [] c = "AppendFile" -> AppendFile_check(a, s, n, t)
      [] c = "EnsureLinePresent" -> EnsureLinePresent_check(a, s, n, t)
      [] c = "RemoveLastLine" -> RemoveLastLine_check(a, s, n, t)
      [] c = "EnsureLineAbsent" -> EnsureLineAbsent_check(a, s, n, t)

Run(c, a, s, n, t, sys) ==
    CASE c = "PacmanInstall" -> PacmanInstall_run(a, s, n, t, sys)
      [] c = "PacmanUninstall" -> PacmanUninstall_run(a, s, n, t, sys)
      [] c = "CreateLink" -> CreateLink_run(a, s, n, t)
      [] c = "EnsureBlockPresent" -> EnsureBlockPresent_run(a, s, n, t)
      [] c = "CreateFile" -> CreateFile_run(a, s, n, t)
      [] c = "CreateDir" -> CreateDir_run(a, s, n, t)
      [] c = "DeleteDir" -> DeleteDir_run(a, s, n, t)
      [] c = "DeleteFile" -> DeleteFile_run(a, s, n, t)
      [] c = "AppendFile" -> AppendFile_run(a, s, n, t)
      [] c = "EnsureLinePresent" -> EnsureLinePresent_run(a, s, n, t)
      [] c = "RemoveLastLine" -> RemoveLastLine_run(a, s, n, t)
      [] c = "EnsureLineAbsent" -> EnsureLineAbsent_run(a, s, n, t)

Rollback(c, a, s, n, t, sys) ==
    CASE c = "PacmanInstall" -> PacmanInstall_rollback(a, s, n, t, sys)
      [] c = "PacmanUninstall" -> PacmanUninstall_rollback(a, s, n, t, sys)
      [] c = "CreateLink" -> CreateLink_rollback(a, s, n, t)
      [] c = "EnsureBlockPresent" -> EnsureBlockPresent_rollback(a, s, n, t)
      [] c = "CreateFile" -> CreateFile_rollback(a, s, n, t)
      [] c = "CreateDir" -> CreateDir_rollback(a, s, n, t)
      [] c = "DeleteDir" -> DeleteDir_rollback(a, s, n, t)
      [] c = "DeleteFile" -> DeleteFile_rollback(a, s, n, t)
      [] c = "AppendFile" -> AppendFile_rollback(a, s, n, t)
      [] c = "EnsureLinePresent" -> EnsureLinePresent_rollback(a, s, n, t)
      [] c = "RemoveLastLine" -> RemoveLastLine_rollback(a, s, n, t)
      [] c = "EnsureLineAbsent" -> EnsureLineAbsent_rollback(a, s, n, t)

\* one call of method m that left r
\* the machine after a method that left r: only the pacman actions touch it
SystemAfter(r) == IF "system" \in DOMAIN r THEN r.system ELSE system

Call(m, r) ==
    [m |-> m, before |-> node, after |-> r.node, result |-> r.result,
     raised |-> r.raised, wrote |-> r.wrote, fields |-> r.self,
     system_before |-> system, system_after |-> SystemAfter(r)]

Apply(m, r) ==
    /\ cls # ""
    /\ Len(calls) < MaxCalls
    /\ self' = r.self
    /\ node' = r.node
    /\ tmp' = r.tmp
    /\ system' = SystemAfter(r)
    /\ calls' = Append(calls, Call(m, r))
    /\ UNCHANGED <<cls, args, io>>
    /\ UNCHANGED <<resolverVars, execVars, driverVars>>

ActCheck == Apply("check", Check(cls, args, self, node, tmp, system))

ActRun == Apply("run", Run(cls, args, self, node, tmp, system))

ActRollback == Apply("rollback", Rollback(cls, args, self, node, tmp, system))

\* an instance of one of the classes, constructed on any path
ActionInit(classes) ==
    /\ cls \in classes
    /\ args \in ArgsOf(cls)
    /\ self = Fields(cls)
    /\ node \in (CASE cls = "CreateLink" -> Nodes \cup Links
                   [] cls = "EnsureBlockPresent" -> BlockNodes
                   [] OTHER -> Nodes)
    /\ tmp = Absent
    /\ system \in (IF cls \in PacmanClasses THEN SUBSET PkgNames ELSE {{}})
    /\ calls = <<>>
    /\ io = NoIo
    /\ ResolverIdle
    /\ ExecIdle
    /\ DriverIdle

ActionNext ==
    \/ ActCheck
    \/ ActRun
    \/ ActRollback

SpecCreateFile == ActionInit({"CreateFile"}) /\ [][ActionNext]_vars

\* the file and directory actions that look at the path in check()
FsClasses ==
    {"CreateDir", "CreateFile", "DeleteDir", "DeleteFile", "AppendFile",
     "EnsureLinePresent", "EnsureLineAbsent", "RemoveLastLine"}

SpecFsActions == ActionInit(FsClasses) /\ [][ActionNext]_vars

SpecActions == ActionInit(FsClasses \cup PacmanClasses) /\ [][ActionNext]_vars

SpecLinks == ActionInit({"CreateLink"}) /\ [][ActionNext]_vars

SpecBlocks == ActionInit({"EnsureBlockPresent"}) /\ [][ActionNext]_vars

(***************************************************************************)
(* A run() whose file write is followed byte by byte, with the process     *)
(* free to die at any point of it.  io.phase is "idle" before run(),       *)
(* "tmp" while atomic_write fills the temporary file, "append" while       *)
(* AppendFile.run writes to the file it opened in append mode, "done"      *)
(* when run() is over and "crashed" when the process died; io.old is the   *)
(* path as run() found it and io.res what the whole run() leaves.          *)
(***************************************************************************)
\* the classes whose run() writes one file
WriterClasses ==
    {"CreateFile", "AppendFile", "EnsureLinePresent", "EnsureLineAbsent",
     "RemoveLastLine"}

\* the bytes the write in progress is to put down
Pending ==
    IF io.phase = "append"
    THEN SubSeq(io.res.node.data, Len(io.old.data) + 1, Len(io.res.node.data))
    ELSE IF io.res.raised THEN io.res.tmp.data ELSE io.res.node.data

\* run() up to its write: no write at all, open(path, "a"), or
\* tmp.write_bytes, which first truncates the temporary file
RunBegin ==
    /\ io.phase = "idle"
    /\ LET r == Run(cls, args, self, node, tmp, system)
       IN  IF ~r.wrote
           THEN /\ io' = [io EXCEPT !.phase = "done", !.old = node, !.res = r]
                /\ self' = r.self
                /\ calls' = Append(calls, Call("run", r))
                /\ UNCHANGED <<node, tmp>>
           ELSE IF cls = "AppendFile"
           THEN /\ io' = [phase |-> "append", old |-> node, res |-> r, written |-> 0]
                /\ node' = File(node.data)
                /\ UNCHANGED <<self, tmp, calls>>
           ELSE /\ io' = [phase |-> "tmp", old |-> node, res |-> r, written |-> 0]
                /\ tmp' = File(<<>>)
                /\ UNCHANGED <<self, node, calls>>
    /\ UNCHANGED <<cls, args, system>>
    /\ UNCHANGED <<resolverVars, execVars, driverVars>>

\* one more byte reaches the file being written
WriteByte ==
    /\ io.phase \in {"tmp", "append"}
    /\ io.written < Len(Pending)
    /\ io' = [io EXCEPT !.written = @ + 1]
    /\ IF io.phase = "tmp"
       THEN /\ tmp' = File(SubSeq(Pending, 1, io.written + 1))
            /\ UNCHANGED node
       ELSE /\ node' = File(node.data \o <<Pending[io.written + 1]>>)
            /\ UNCHANGED tmp
    /\ UNCHANGED <<cls, args, self, system, calls>>
    /\ UNCHANGED <<resolverVars, execVars, driverVars>>

\* atomic_write: os.replace(tmp, path), and the rest of run()
Replace ==
    /\ io.phase = "tmp"
    /\ io.written = Len(Pending)
    /\ io' = [io EXCEPT !.phase = "done"]
    /\ node' = io.res.node
    /\ tmp' = io.res.tmp
    /\ self' = io.res.self
    /\ calls' = Append(calls, [Call("run", io.res) EXCEPT !.before = io.old])
    /\ UNCHANGED <<cls, args, system>>
    /\ UNCHANGED <<resolverVars, execVars, driverVars>>

\* AppendFile.run: the with block closes the file, _appended = True
AppendClose ==
    /\ io.phase = "append"
    /\ io.written = Len(Pending)
    /\ io' = [io EXCEPT !.phase = "done"]
    /\ self' = io.res.self
    /\ calls' = Append(calls, [Call("run", io.res) EXCEPT !.before = io.old])
    /\ UNCHANGED <<cls, args, node, tmp, system>>
    /\ UNCHANGED <<resolverVars, execVars, driverVars>>

\* the process dies during the write
Crash ==
    /\ io.phase \in {"tmp", "append"}
    /\ io' = [io EXCEPT !.phase = "crashed"]
    /\ UNCHANGED <<cls, args, self, node, tmp, system, calls>>
    /\ UNCHANGED <<resolverVars, execVars, driverVars>>

CrashNext ==
    \/ RunBegin
    \/ WriteByte
    \/ Replace
    \/ AppendClose
    \/ Crash

SpecCrash == ActionInit(WriterClasses) /\ [][CrashNext]_vars

(***************************************************************************)
(* The State object on its own (src/configmgr/core/state.py): its methods  *)
(* called in any order, on entries that carry their timestamp.  st is      *)
(* self.installed, disk what STATE_FILE holds (no entry when it is         *)
(* missing), dlog the calls made.                                          *)
(***************************************************************************)
\* InstalledInfo(version, installed_at)
InstalledInfo(version, at) == [version |-> version, installed_at |-> at]

\* what datetime.now(timezone.utc).isoformat() may answer
Times == {"t1", "t2"}

\* State.load
StateLoad ==
    /\ Len(dlog) < MaxOps
    /\ st' = disk
    /\ dlog' = Append(dlog, DEvent("load", "", ""))
    /\ UNCHANGED <<command, dry_run, ncmd, disk, plan, pidx, dpc, exit, shown>>
    /\ UNCHANGED <<resolverVars, execVars, actionVars>>

\* State.save
StateSave ==
    /\ Len(dlog) < MaxOps
    /\ disk' = st
    /\ dlog' = Append(dlog, DEvent("save", "", ""))
    /\ UNCHANGED <<command, dry_run, ncmd, st, plan, pidx, dpc, exit, shown>>
    /\ UNCHANGED <<resolverVars, execVars, actionVars>>

\* State.mark_installed(name, version), at the time now
StateMarkInstalled(name, version, now) ==
    /\ Len(dlog) < MaxOps
    /\ st' = mark_installed(st, name, InstalledInfo(version, now))
    /\ dlog' = Append(dlog, DEvent("mark_installed", name, InstalledInfo(version, now)))
    /\ UNCHANGED <<command, dry_run, ncmd, disk, plan, pidx, dpc, exit, shown>>
    /\ UNCHANGED <<resolverVars, execVars, actionVars>>

\* State.mark_uninstalled(name)
StateMarkUninstalled(name) ==
    /\ Len(dlog) < MaxOps
    /\ st' = mark_uninstalled(st, name)
    /\ dlog' = Append(dlog, DEvent("mark_uninstalled", name, ""))
    /\ UNCHANGED <<command, dry_run, ncmd, disk, plan, pidx, dpc, exit, shown>>
    /\ UNCHANGED <<resolverVars, execVars, actionVars>>

\* State(): self.installed = {}; the file is missing
LedgerInit ==
    /\ ResolverIdle
    /\ ExecIdle
    /\ DriverIdle
    /\ ActionIdle

LedgerNext ==
    \/ StateLoad
    \/ StateSave
    \/ \E name \in Names, version \in LedgerVersions, now \in Times :
          StateMarkInstalled(name, version, now)
    \/ \E name \in Names : StateMarkUninstalled(name)

SpecLedger == LedgerInit /\ [][LedgerNext]_vars

(***************************************************************************)
(* The dependency relation the resolver claims speak of                    *)
(***************************************************************************)
\* the names g's definition of n lists (none when n has no definition)
DepsOf(g, n) == IF n \in DOMAIN g THEN Range(g[n].dependencies) ELSE {}

RECURSIVE DepClosure(_, _, _, _)
\* S and everything reached from S in at most k steps along dependencies
\* that lie in T
DepClosure(g, T, S, k) ==
    IF k = 0 THEN S
    ELSE DepClosure(g, T, S \cup UNION {DepsOf(g, m) \cap T : m \in S}, k - 1)

\* the transitive dependencies of n, along paths whose nodes after n lie in T
DependsOnWithin(g, T, n) == DepClosure(g, T, DepsOf(g, n) \cap T, Cardinality(Names))

\* the transitive dependencies of n
DependsOn(g, n) == DependsOnWithin(g, Names, n)

\* the targets and everything they transitively depend on
TargetClosure(g, tg) == Range(tg) \cup UNION {DependsOn(g, t) : t \in Range(tg)}

\* n lies on a dependency cycle
OnCycle(g, n) == n \in DependsOn(g, n)

\* the position of name in a plan (0 when absent)
PlanIndex(p, name) ==
    IF \E i \in 1..Len(p) : p[i].name = name
    THEN CHOOSE i \in 1..Len(p) : p[i].name = name
    ELSE 0

PlanNames(p) == {p[i].name : i \in 1..Len(p)}

(***************************************************************************)
(* C1: in every plan resolve_install_order returns, a package that is a    *)
(* (transitive) dependency of another package of the plan stands at a      *)
(* smaller index than that package.                                        *)
(***************************************************************************)
C1_DependenciesFirst ==
    (call = "install" /\ outcome.kind = "plan") =>
        \A i, j \in 1..Len(outcome.plan) :
            outcome.plan[i].name \in DependsOn(repo, outcome.plan[j].name) => i < j

\* a plan of three packages, the first a dependency of the third only
\* through the second
C1_Witness ==
    /\ call = "install" /\ outcome.kind = "plan" /\ Len(outcome.plan) = 3
    /\ outcome.plan[1].name \in DepsOf(repo, outcome.plan[2].name)
    /\ outcome.plan[2].name \in DepsOf(repo, outcome.plan[3].name)
    /\ outcome.plan[1].name \notin DepsOf(repo, outcome.plan[3].name)

(***************************************************************************)
(* C2: when a dependency cycle (a self-dependency included) is reachable   *)
(* from a target, resolve_install_order returns no plan, whatever the      *)
(* ledger holds; and when every package reachable from the targets has a   *)
(* definition, it raises the cycle error, naming a node that lies on a     *)
(* cycle reachable from a target.                                          *)
(***************************************************************************)
CycleReachable(g, tg) == \E n \in TargetClosure(g, tg) : OnCycle(g, n)

AllDefined(g, tg) == \A n \in TargetClosure(g, tg) : g[n].found

C2_CycleIsFatal ==
    (call = "install" /\ CycleReachable(repo, targets)) =>
        /\ outcome.kind \in {"cycle", "notfound"}
        /\ outcome.plan = <<>>
        /\ AllDefined(repo, targets) =>
              /\ outcome.kind = "cycle"
              /\ outcome.at \in TargetClosure(repo, targets)
              /\ OnCycle(repo, outcome.at)

\* a cycle of two packages met below a target that is not on it, with some
\* package of the closure already installed
C2_Witness ==
    /\ call = "install" /\ outcome.kind = "cycle"
    /\ Len(targets) >= 1 /\ ~OnCycle(repo, targets[1])
    /\ outcome.at \notin DepsOf(repo, outcome.at)
    /\ DOMAIN installed \cap TargetClosure(repo, targets) # {}

(***************************************************************************)
(* C3: resolve_uninstall_order refuses exactly the blocked uninstalls: if  *)
(* some installed target is listed as a dependency by the definition of an *)
(* installed package outside the targets, the call raises an error naming  *)
(* the target and that dependent and returns no plan; otherwise the call   *)
(* succeeds.                                                               *)
(***************************************************************************)
\* d, installed and not a target, has a definition that lists the installed target t
BlockedBy(t, d) ==
    /\ t \in Range(targets) /\ t \in DOMAIN installed
    /\ d \in DOMAIN installed /\ d \notin Range(targets)
    /\ repo[d].found /\ t \in Range(repo[d].dependencies)

C3_RefusesExactlyBlocked ==
    call = "uninstall" =>
        IF \E t, d \in Names : BlockedBy(t, d)
        THEN /\ outcome.kind = "blocked"
             /\ outcome.plan = <<>>
             /\ BlockedBy(outcome.at, outcome.by)
        ELSE outcome.kind = "plan"

(***************************************************************************)
(* C4: in every plan resolve_uninstall_order returns, when the targets do  *)
(* not depend on each other in a cycle, a target that depends on another   *)
(* target (directly, or transitively through targets) stands before it,    *)
(* whatever the order in which the set of targets is iterated.             *)
(***************************************************************************)
AcyclicAmongTargets ==
    \A n \in Range(targets) :
        n \notin DependsOnWithin(UninstallGraph(repo, installed), Range(targets), n)

Steps == 1..Len(trace)

\* the event at position k is ev on action a
Is(k, ev, a) == trace[k].ev = ev /\ trace[k].act = a

\* what follows position k is ev on action a: as the next event or, when k
\* is the last event, as the place the executor is at
Then(k, ev, a, place) ==
    IF k < Len(trace) THEN Is(k + 1, ev, a) ELSE (epc \in place /\ cur = a)

\* the number of times ev was called on action a
Count(ev, a) == Cardinality({k \in Steps : Is(k, ev, a)})

\* action a's run was called and returned (ok) or raised (~ok)
Ran(a, ok) == \E k \in Steps : Is(k, "run", a) /\ trace[k].val = ok

(***************************************************************************)
(* C5: an action whose check() returned false is never prompted for, run   *)
(* or rolled back (so it never counts as applied), and the executor goes   *)
(* straight on to the check of the next action.                            *)
(***************************************************************************)
C5_FalseCheckSkips ==
    \A k \in Steps :
        (trace[k].ev = "check" /\ trace[k].val = FALSE) =>
            /\ \A m \in Steps : trace[m].act = trace[k].act => m = k
            /\ Then(k, "check", trace[k].act + 1, {"loop", "returned"})

\* the first action's check was false, the second was checked, approved and run
C5_Witness ==
    /\ epc = "returned" /\ nActions = 2
    /\ trace[1] = Event("check", 1, FALSE)
    /\ trace[2] = Event("check", 2, TRUE)
    /\ Ran(2, TRUE)

(***************************************************************************)
(* C6: with no_confirm set, for a sequence [a1, a2] where a1's run         *)
(* succeeds and a2's run fails, once the executor has returned a1.rollback *)
(* has been called exactly once, a2.rollback has not been called, and the  *)
(* executor has reported failure.                                          *)
(***************************************************************************)
C6_BatchRollsBackApplied ==
    (/\ epc = "returned" /\ no_confirm /\ nActions = 2
     /\ Ran(1, TRUE) /\ Ran(2, FALSE)) =>
        /\ Count("rollback", 1) = 1
        /\ Count("rollback", 2) = 0
        /\ ret = "failure"

(***************************************************************************)
(* C7: with no_confirm set, after the first action whose run fails no      *)
(* later action of the sequence is checked or run, and the executor        *)
(* returns a failure result.  (The claim adds that the driver then calls   *)
(* the executor on no later plan entry; the two conjuncts stated here      *)
(* already fail.)                                                          *)
(***************************************************************************)
C7_BatchStopsAtFailure ==
    no_confirm =>
        \A k \in Steps :
            (trace[k].ev = "run" /\ trace[k].val = FALSE) =>
                /\ \A m \in Steps :
                      (m > k /\ trace[m].act > trace[k].act) => trace[m].ev \notin {"check", "run"}
                /\ epc = "returned" => ret = "failure"

(***************************************************************************)
(* C8: with no_confirm set the executor never waits for the operator:      *)
(* neither query_before_action's prompt nor any other prompt is reached,   *)
(* whether runs succeed or fail.                                           *)
(***************************************************************************)
C8_BatchNeverPrompts ==
    no_confirm =>
        /\ epc \notin {"query", "ask"}
        /\ \A k \in Steps : trace[k].ev \notin {"query", "answer"}

(***************************************************************************)
(* C9: without no_confirm, when an action's run fails the executor calls   *)
(* that action's rollback next and then asks retry or skip; on r the same  *)
(* action's run is called again; on s the executor goes on to check the    *)
(* next action; no action whose run succeeded is ever rolled back, and the *)
(* executor returns only after the whole sequence has been gone through.   *)
(***************************************************************************)
C9_FailureIsRetryOrSkip ==
    ~no_confirm =>
        /\ \A k \in Steps :
              /\ (trace[k].ev = "run" /\ trace[k].val = FALSE) =>
                    Then(k, "rollback", trace[k].act, {"failed"})
              /\ trace[k].ev = "rollback" =>
                    /\ Then(k, "answer", trace[k].act, {"ask"})
                    /\ ~\E m \in 1..(k - 1) : Is(m, "run", trace[k].act) /\ trace[m].val = TRUE
              /\ (trace[k].ev = "answer" /\ trace[k].val = <<"r">>) =>
                    Then(k, "run", trace[k].act, {"run"})
              /\ (trace[k].ev = "answer" /\ trace[k].val = <<"s">>) =>
                    Then(k, "check", trace[k].act + 1, {"loop", "returned"})
        /\ epc = "returned" => \A a \in 1..nActions : Count("check", a) = 1

\* the first action was approved, failed, was retried, failed again and was
\* skipped; the executor then went on to the second action
C9_Witness ==
    /\ ~no_confirm /\ nActions = 2 /\ Len(trace) >= 9
    /\ trace[3] = Event("run", 1, FALSE)
    /\ trace[4].ev = "rollback"
    /\ trace[5] = Event("answer", 1, <<"r">>)
    /\ trace[6] = Event("run", 1, FALSE)
    /\ trace[8] = Event("answer", 1, <<"s">>)
    /\ trace[9].ev = "check" /\ trace[9].act = 2

(***************************************************************************)
(* C10: without no_confirm, every action whose check() is true is prompted *)
(* for before anything else happens to it, and runs only after a y or yes; *)
(* when the operator answers n, no or nothing, the action's run            *)
(* and rollback are never called and the executor goes on to the next      *)
(* action.                                                                 *)
(***************************************************************************)
Declining == {<<"n">>, <<"n", "o">>, <<>>}

Approving == {<<"y">>, <<"y", "e", "s">>}

C10_PromptBeforeRun ==
    ~no_confirm =>
        \A k \in Steps :
            /\ (trace[k].ev = "check" /\ trace[k].val = TRUE) =>
                  Then(k, "query", trace[k].act, {"query"})
            /\ (trace[k].ev = "query" /\ trace[k].val \in Declining) =>
                  /\ Count("run", trace[k].act) = 0
                  /\ Count("rollback", trace[k].act) = 0
                  /\ Then(k, "check", trace[k].act + 1, {"loop", "returned"})
            /\ trace[k].ev = "run" =>
                  \E m \in 1..(k - 1) : Is(m, "query", trace[k].act) /\ trace[m].val \in Approving

\* the first action was declined with an empty line, the second with "No ",
\* and the executor returned
C10_Witness ==
    /\ ~no_confirm /\ epc = "returned" /\ nActions = 2
    /\ trace = << Event("check", 1, TRUE), Event("query", 1, <<>>),
                  Event("check", 2, TRUE), Event("query", 2, <<"n", "o">>) >>

(***************************************************************************)
(* C15: in every plan resolve_install_order returns, no package of the     *)
(* dependency closure of the targets that the ledger holds at the          *)
(* definition's version appears (there are no skip entries); when every    *)
(* package of the closure is held at its current version the plan is       *)
(* empty.                                                                  *)
(***************************************************************************)
UpToDate(n) == n \in DOMAIN installed /\ installed[n] = repo[n].version

Outdated(n) == n \in DOMAIN installed /\ installed[n] # repo[n].version

\* the number of entries of the plan that name n
Occurrences(p, n) == Cardinality({i \in 1..Len(p) : p[i].name = n})

C15_UpToDateLeftOut ==
    (call = "install" /\ outcome.kind = "plan") =>
        /\ \A n \in TargetClosure(repo, targets) : UpToDate(n) => n \notin PlanNames(outcome.plan)
        /\ \A i \in 1..Len(outcome.plan) : outcome.plan[i].op # "skip"
        /\ (\A n \in TargetClosure(repo, targets) : UpToDate(n)) => outcome.plan = <<>>

\* an up-to-date target that depends on an up-to-date package and on one
\* that is planned
C15_Witness ==
    /\ call = "install" /\ outcome.kind = "plan" /\ Len(outcome.plan) = 1
    /\ Len(targets) = 1 /\ UpToDate(targets[1])
    /\ \E d \in DepsOf(repo, targets[1]) : UpToDate(d)
    /\ Cardinality(TargetClosure(repo, targets)) = 3

(***************************************************************************)
(* C16: in every plan resolve_install_order returns, each package of the   *)
(* dependency closure of the targets whose ledger version differs from the *)
(* definition's version appears exactly once, with operation update.       *)
(***************************************************************************)
C16_OutdatedUpdatedOnce ==
    (call = "install" /\ outcome.kind = "plan") =>
        \A n \in TargetClosure(repo, targets) :
            Outdated(n) =>
                /\ Occurrences(outcome.plan, n) = 1
                /\ outcome.plan[PlanIndex(outcome.plan, n)].op = "update"

\* an outdated package reached twice: as a target named twice and as a
\* dependency of another outdated package
C16_Witness ==
    /\ call = "install" /\ outcome.kind = "plan"
    /\ Len(targets) = 2 /\ targets[1] = targets[2] /\ Outdated(targets[1])
    /\ \E d \in DepsOf(repo, targets[1]) : Outdated(d) /\ d # targets[1]

(***************************************************************************)
(* C17: in every plan resolve_install_order returns, each package of the   *)
(* dependency closure of the targets that the ledger does not hold appears *)
(* exactly once, with operation install, also when the package that pulled *)
(* it in is up to date; and the plan names no package outside the closure. *)
(***************************************************************************)
C17_AbsentInstalledOnce ==
    (call = "install" /\ outcome.kind = "plan") =>
        /\ \A n \in TargetClosure(repo, targets) :
              n \notin DOMAIN installed =>
                  /\ Occurrences(outcome.plan, n) = 1
                  /\ outcome.plan[PlanIndex(outcome.plan, n)].op = "install"
        /\ PlanNames(outcome.plan) \subseteq TargetClosure(repo, targets)

\* the only target is up to date, and a package it depends on is absent
\* from the ledger and planned
C17_Witness ==
    /\ call = "install" /\ outcome.kind = "plan"
    /\ Len(targets) = 1 /\ UpToDate(targets[1])
    /\ \E d \in DepsOf(repo, targets[1]) :
          d \notin DOMAIN installed /\ d \in PlanNames(outcome.plan)
    /\ \E n \in Names : n \notin TargetClosure(repo, targets)

(***************************************************************************)
(* C19: every plan resolve_uninstall_order returns names requested targets *)
(* only (no dependency that was not itself requested), and names every     *)
(* requested target that is installed.                                     *)
(***************************************************************************)
C19_TargetsOnly ==
    (call = "uninstall" /\ outcome.kind = "plan") =>
        /\ PlanNames(outcome.plan) \subseteq Range(targets)
        /\ \A t \in Range(targets) : t \in DOMAIN installed => t \in PlanNames(outcome.plan)

\* the only target depends on an installed package that was not requested
C19_Witness ==
    /\ call = "uninstall" /\ outcome.kind = "plan" /\ Len(outcome.plan) = 1
    /\ \E d \in DepsOf(repo, outcome.plan[1].name) :
          d \in DOMAIN installed /\ d \notin Range(targets)

(***************************************************************************)
(* C20: given a target that the ledger does not hold (and no target that   *)
(* an installed package outside the targets depends on),                   *)
(* resolve_uninstall_order does not fail: it returns a plan that leaves    *)
(* that target out and names the other, installed targets.                 *)
(***************************************************************************)
C20_StaleTargetIgnored ==
    (/\ call = "uninstall"
     /\ \E t \in Range(targets) : t \notin DOMAIN installed
     /\ ~\E t, d \in Names : BlockedBy(t, d)) =>
        /\ outcome.kind = "plan"
        /\ PlanNames(outcome.plan) = Range(targets) \cap DOMAIN installed

(***************************************************************************)
(* What the driver claims speak of                                         *)
(***************************************************************************)
DSteps == 1..Len(dlog)

DIs(i, ev, name) == dlog[i].ev = ev /\ dlog[i].name = name

\* the ledger led holds what the command records for a completed plan entry
Recorded(led, name) ==
    IF command = "uninstall" THEN name \notin DOMAIN led
    ELSE name \in DOMAIN led /\ led[name] = repo[name].version

\* the ledger led holds for name what the command loaded
Untouched(led, name) ==
    /\ name \in DOMAIN led <=> name \in DOMAIN installed
    /\ name \in DOMAIN led => led[name] = installed[name]

(***************************************************************************)
(* C11: in cmd_install, cmd_update and cmd_uninstall the ledger entry of a *)
(* plan entry's package is written or removed only after the executor has  *)
(* reported success for that package's actions, and before the executor is *)
(* invoked on the next plan entry; and after a run of the executor that    *)
(* applied the package's actions the ledger change is made.                *)
(***************************************************************************)
C11_LedgerFollowsExecutor ==
    /\ \A i \in DSteps :
          dlog[i].ev = "mark" =>
              i > 1 /\ DIs(i - 1, "returned", dlog[i].name) /\ dlog[i - 1].val = "ok"
    /\ \A i, j \in DSteps :
          (i < j /\ dlog[i].ev = "executor" /\ dlog[i].val = "applied" /\ dlog[j].ev = "run") =>
              \E k \in (i + 1)..(j - 1) : DIs(k, "mark", dlog[i].name)
    /\ \A i \in DSteps :
          (dlog[i].ev = "executor" /\ dlog[i].val = "applied") =>
              /\ \E k \in DSteps : k > i /\ DIs(k, "mark", dlog[i].name)
              /\ Recorded(st, dlog[i].name)

(***************************************************************************)
(* C12: when the executor fails on plan entry k, the ledger the next       *)
(* command loads is unchanged for the package of entry k and of every      *)
(* later entry, and holds the change of every entry before k.              *)
(***************************************************************************)
ExecutorFailed ==
    /\ dpc = "ended" /\ pidx >= 1
    /\ dlog # <<>> /\ dlog[Len(dlog)].ev = "returned" /\ dlog[Len(dlog)].val = "failed"

C13_DryRunDescribesNeeded ==
    dry_run =>
        /\ shown.described = {i \in 1..Len(shown.needed) : shown.needed[i]}
        /\ \A i \in DSteps : dlog[i].ev = "save"
        /\ epc = "idle" /\ trace = <<>>
        /\ dpc \in {"loop", "executor"} \/ dlog # <<>> => st = installed /\ disk = installed

(***************************************************************************)
(* C14: the command hands the plan entries to the executor one at a time,  *)
(* in the order of the plan; so in an install (or update) command, when    *)
(* the executor is started on a package, every package of the plan that it *)
(* depends on has had its actions applied and its ledger entry written.    *)
(***************************************************************************)
\* the steps of the log at which the executor was started
RunSteps == SelectSeq2([i \in DSteps |-> i], {i \in DSteps : dlog[i].ev = "run"})

Undefined(n) == n \in DOMAIN installed /\ ~repo[n].found

C21_LookupFailureIsLeaf ==
    call = "uninstall" =>
        /\ outcome.kind # "notfound"
        /\ outcome.kind = "blocked" => ~Undefined(outcome.by)
        /\ \A u \in Names :
              Undefined(u) =>
                  UninstallGraph(repo, installed)[u] = Package(installed[u], <<>>)
        /\ (/\ Range(targets) \subseteq DOMAIN installed
            /\ ~\E t, d \in Names : BlockedBy(t, d)) =>
              /\ outcome.kind = "plan"
              /\ \A t \in Range(targets) : Undefined(t) => t \in PlanNames(outcome.plan)

\* the target has no definition, and neither has an installed package
\* outside the targets; a defined target depends on the undefined one
C21_Witness ==
    /\ call = "uninstall" /\ outcome.kind = "plan" /\ Len(outcome.plan) = 2
    /\ \E t \in Range(targets) : Undefined(t)
    /\ \E t, u \in Range(targets) : repo[t].found /\ Undefined(u) /\ u \in DepsOf(repo, t)
    /\ \E n \in Names : n \notin Range(targets) /\ Undefined(n)

(***************************************************************************)
(* C30: no plan returned by resolve_install_order or by                    *)
(* resolve_uninstall_order names a package twice, also when the targets    *)
(* name a package more than once or a package is reached along several     *)
(* dependency paths.                                                       *)
(***************************************************************************)
C30_NoDuplicateNames ==
    outcome.kind = "plan" =>
        \A i, j \in 1..Len(outcome.plan) :
            outcome.plan[i].name = outcome.plan[j].name => i = j

\* an install plan for a package that two targets depend on
C30_Witness ==
    /\ call = "install" /\ outcome.kind = "plan" /\ Len(outcome.plan) = 3
    /\ Len(targets) = 2 /\ targets[1] # targets[2]
    /\ \E d \in Names : d \in DepsOf(repo, targets[1]) /\ d \in DepsOf(repo, targets[2])

\* an uninstall plan for a target named twice
C30_WitnessUninstall ==
    /\ call = "uninstall" /\ outcome.kind = "plan" /\ Len(outcome.plan) = 1
    /\ Len(targets) = 2 /\ targets[1] = targets[2]

(***************************************************************************)
(* C23: an exception raised by an action's rollback does not leave the     *)
(* executor: it is reported on stderr, the failure of run is reported too  *)
(* (once for every pass of deal_with_failure), and the executor goes on to *)
(* the retry/skip prompt of that action.                                   *)
(***************************************************************************)
Reports(what, a) == Cardinality({k \in 1..Len(stderr) : stderr[k] = Report(what, a)})

C23_RollbackFailureContained ==
    /\ epc \in {"idle", "loop", "query", "run", "failed", "ask", "returned"}
    /\ \A k \in Steps :
          (trace[k].ev = "rollback" /\ trace[k].val = FALSE) =>
              Then(k, "answer", trace[k].act, {"ask"})
    /\ \A a \in 1..nActions :
          /\ Reports("Action failed", a) = Count("rollback", a)
          /\ Reports("Action rollback failed", a) =
                Cardinality({k \in Steps : Is(k, "rollback", a) /\ trace[k].val = FALSE})
          /\ Ran(a, FALSE) /\ epc # "failed" => Reports("Action failed", a) >= 1

\* the rollback of the first action raised, the operator chose to retry, the
\* second run succeeded and the executor went on to the second action
C23_Witness ==
    /\ nActions = 2 /\ Len(trace) >= 7
    /\ trace[3] = Event("run", 1, FALSE)
    /\ trace[4] = Event("rollback", 1, FALSE)
    /\ trace[5] = Event("answer", 1, <<"r">>)
    /\ trace[6] = Event("run", 1, TRUE)
    /\ trace[7].ev = "check" /\ trace[7].act = 2

(***************************************************************************)
(* C28: when Executor.run is called without no_confirm, the calls on the   *)
(* actions return and the operator comes to type an accepted line at every *)
(* prompt (and a run comes to succeed or skip is chosen), run returns; and *)
(* when it has returned every action of the sequence has reached exactly   *)
(* one terminal outcome: skipped as its check was false, skipped as the    *)
(* operator declined, applied, or skipped after a failure.                 *)
(***************************************************************************)
Outcomes(a) ==
    {o \in {"unneeded", "declined", "applied", "skipped"} :
        \/ o = "unneeded" /\ \E k \in Steps : Is(k, "check", a) /\ trace[k].val = FALSE
        \/ o = "declined" /\ \E k \in Steps : Is(k, "query", a) /\ trace[k].val \in Declining
        \/ o = "applied" /\ Ran(a, TRUE)
        \/ o = "skipped" /\ \E k \in Steps : Is(k, "answer", a) /\ trace[k].val = <<"s">>}

AllTerminal == \A a \in 1..nActions : Cardinality(Outcomes(a)) = 1

C28_InteractiveRunReturns ==
    ~no_confirm => ([](epc = "returned" => AllTerminal) /\ <>(epc = "returned"))

\* run has returned after more rejected lines and failed runs than
\* MaxAnswers counts, with one action skipped after a failure and one applied
C28_Witness ==
    /\ ~no_confirm /\ epc = "returned" /\ nActions = 2 /\ answers > MaxAnswers
    /\ \E k \in Steps : trace[k].ev = "query" /\ ~(trace[k].val \in Declining \cup Approving)
    /\ \E a, b \in 1..nActions : Outcomes(a) = {"skipped"} /\ Outcomes(b) = {"applied"}

(***************************************************************************)
(* C29: the ledger holds at most one entry per package name.               *)
(* mark_installed creates the entry of the name when there is none and     *)
(* otherwise replaces its version and timestamp, leaving every other entry *)
(* as it was; mark_uninstalled removes the entry of the name and leaves    *)
(* every other entry as it was; mark_uninstalled of a name without an      *)
(* entry leaves the whole ledger unchanged (and does not fail).            *)
(***************************************************************************)
\* the entries of a ledger, as (name, info) pairs
Entries(led) == {<<n, led[n]>> : n \in DOMAIN led}

OneEntryPerName(led) ==
    \A e, f \in Entries(led) : e[1] = f[1] => e = f

OthersKept(name) ==
    \A n \in Names \ {name} :
        /\ n \in DOMAIN st' <=> n \in DOMAIN st
        /\ n \in DOMAIN st => st'[n] = st[n]

LedgerStep ==
    dlog' # dlog =>
        LET e == dlog'[Len(dlog')]
        IN  /\ OneEntryPerName(st') /\ OneEntryPerName(disk')
            /\ e.ev = "mark_installed" =>
                  /\ e.name \in DOMAIN st'
                  /\ st'[e.name] = e.val
                  /\ OthersKept(e.name)
            /\ e.ev = "mark_uninstalled" =>
                  /\ e.name \notin DOMAIN st'
                  /\ OthersKept(e.name)
                  /\ e.name \notin DOMAIN st => st' = st
            /\ e.ev \in {"load", "save", "mark_installed", "mark_uninstalled"}

C29_OneEntryPerName == [][LedgerStep]_vars

\* an entry was created, then replaced by one of another version and time,
\* then mark_uninstalled was called on a name without an entry
C29_Witness ==
    /\ Len(dlog) = 3
    /\ dlog[1].ev = "mark_installed" /\ dlog[2].ev = "mark_installed"
    /\ dlog[1].name = dlog[2].name
    /\ dlog[1].val.version # dlog[2].val.version
    /\ dlog[1].val.installed_at # dlog[2].val.installed_at
    /\ dlog[3].ev = "mark_uninstalled" /\ dlog[3].name # dlog[1].name
    /\ st = (dlog[2].name :> dlog[2].val)

(***************************************************************************)
(* C22: for CreateFile, run followed by rollback restores the path to its  *)
(* state before run: the same content if a file existed (an empty file     *)
(* included), and absence if nothing existed.                              *)
(***************************************************************************)
RunThenRollback ==
    /\ Len(calls) >= 2
    /\ calls[1].m = "run" /\ ~calls[1].raised
    /\ calls[2].m = "rollback"

C22_CreateFileRoundTrip ==
    (cls = "CreateFile" /\ RunThenRollback /\ calls[1].before.kind \in {"absent", "file"})
        => calls[2].after = calls[1].before

(***************************************************************************)
(* C27: for the file and directory actions whose check() looks at the      *)
(* path, a check() called immediately after a run() that returned without  *)
(* error returns false.                                                    *)
(***************************************************************************)
RunThenCheck(i) ==
    /\ i + 1 <= Len(calls)
    /\ calls[i].m = "run" /\ ~calls[i].raised
    /\ calls[i + 1].m = "check" /\ ~calls[i + 1].raised

C27_CheckFalseAfterRun ==
    \A i \in 1..Len(calls) :
        (cls \in FsClasses /\ RunThenCheck(i)) => ~calls[i + 1].result

(***************************************************************************)
(* C25: run records rollback state only on the path that changes           *)
(* something: when the run() of a fresh instance returns without having    *)
(* changed or written anything, the instance fields are as the constructor *)
(* left them (no backup, no flag), and a rollback() called next writes     *)
(* nothing and leaves the path as it is.                                   *)
(***************************************************************************)
NoOpRun ==
    /\ Len(calls) >= 1
    /\ calls[1].m = "run" /\ ~calls[1].raised
    /\ ~calls[1].wrote /\ calls[1].after = calls[1].before

C25_NoBackupOnNoOp ==
    (cls \in FsClasses /\ NoOpRun) =>
        /\ calls[1].fields = Fields(cls)
        /\ (Len(calls) >= 2 /\ calls[2].m = "rollback") =>
               ~calls[2].wrote /\ calls[2].after = calls[2].before

(***************************************************************************)
(* C24: check() never mutates state, for any action variant: a call of     *)
(* check() leaves the path, the machine and the instance fields            *)
(* (need_to_install and need_to_remove included) as it found them.         *)
(***************************************************************************)
FieldsBefore(i) == IF i = 1 THEN Fields(cls) ELSE calls[i - 1].fields

C24_CheckMutatesNothing ==
    \A i \in 1..Len(calls) :
        calls[i].m = "check" =>
            /\ calls[i].fields = FieldsBefore(i)
            /\ calls[i].after = calls[i].before
            /\ calls[i].system_after = calls[i].system_before
            /\ ~calls[i].wrote

(***************************************************************************)
(* C26: if the process dies at any point of the run() of a file-writing    *)
(* action, the file at the path holds either what it held before run() or  *)
(* the complete new content, never a part of it: every write goes to a     *)
(* temporary file that is then renamed over the path.                      *)
(***************************************************************************)
C26_CrashLeavesOldOrNew ==
    io.phase = "crashed" => (node = io.old \/ node = io.res.node)

(***************************************************************************)
(* C31: neither resolver mutates its inputs: when resolve_install_order or *)
(* resolve_uninstall_order has returned or raised, the targets list and    *)
(* the installed mapping are as they were before the call, and no check,   *)
(* run or rollback of any action has been invoked.                         *)
(***************************************************************************)
ResolverCallStep ==
    call' # call =>
        /\ targets' = targets
        /\ installed' = installed
        /\ trace' = trace
        /\ calls' = calls
        /\ dlog' = dlog

InstalledTargets == Range(targets) \cap DOMAIN installed

CycleAmongInstalledTargets ==
    \E n \in InstalledTargets :
        n \in DependsOnWithin(UninstallGraph(repo, installed), InstalledTargets, n)

C37_CycleStillPlanned ==
    call = "uninstall" =>
        /\ outcome.kind # "cycle"
        /\ (CycleAmongInstalledTargets /\ ~\E t, d \in Names : BlockedBy(t, d)) =>
               /\ outcome.kind = "plan"
               /\ \A t \in InstalledTargets : Occurrences(outcome.plan, t) = 1

(***************************************************************************)
(* C36: for each failed run of an action, the interactive executor calls   *)
(* the rollback of that action exactly once before the operator's retry or *)
(* skip takes effect, whatever the operator types at the prompt, rejected  *)
(* answers included.                                                       *)
(***************************************************************************)
\* trace[j] is an answer that deal_with_failure accepts
IsDecision(j) == trace[j].ev = "answer" /\ MatchFailure(trace[j].val) # "invalid"

\* the position of the decision that follows the failed run at k
\* (one past the end of the trace while there is none yet)
DecisionAfter(k) ==
    IF \E j \in (k + 1)..Len(trace) : IsDecision(j)
    THEN CHOOSE j \in (k + 1)..Len(trace) :
             IsDecision(j) /\ \A i \in (k + 1)..(j - 1) : ~IsDecision(i)
    ELSE Len(trace) + 1

RollbacksAfter(k) ==
    Cardinality({i \in (k + 1)..(DecisionAfter(k) - 1) : trace[i].ev = "rollback"})

C36_RollbackOncePerFailure ==
    \A k \in 1..Len(trace) :
        (trace[k].ev = "run" /\ ~trace[k].val) =>
            /\ RollbacksAfter(k) <= 1
            /\ DecisionAfter(k) <= Len(trace) => RollbacksAfter(k) = 1

(***************************************************************************)
(* C38: cmd_uninstall, when a requested target is not in the ledger,       *)
(* returns failure before resolving or executing anything: the resolver    *)
(* (and with it the lookup) is not called, no action of any target is      *)
(* handed to the executor, and the ledger, in memory and in the file, is   *)
(* as it was loaded.                                                       *)
(***************************************************************************)
C38_MissingTargetRefused ==
    (/\ command = "uninstall" /\ dpc # "start"
     /\ \E t \in Range(targets) : t \notin DOMAIN installed) =>
        /\ dpc = "ended" /\ exit = "1"
        /\ call = "none" /\ outcome = NoOutcome
        /\ plan = <<>> /\ pidx = 0
        /\ dlog = <<>>
        /\ st = installed /\ disk = installed

\* one target is installed, another is not, and the command has ended
C38_Witness ==
    /\ command = "uninstall" /\ dpc = "ended"
    /\ \E t \in Range(targets) : t \in DOMAIN installed
    /\ \E t \in Range(targets) : t \notin DOMAIN installed


(***************************************************************************)
(* Commands run one after another on one ledger                            *)
(***************************************************************************)
\* the number of commands run on one ledger
MaxCommands == 3

\* main() is started again with another command line: the command starts
\* from the ledger file the commands before it left
NextCommand ==
    /\ dpc = "ended" /\ ncmd < MaxCommands
    /\ ncmd' = ncmd + 1
    /\ command' \in {"install", "uninstall", "update"}
    /\ targets' \in DriverTargets
    /\ dry_run' \in BOOLEAN
    /\ installed' = <<>>
    /\ call' = "none"
    /\ outcome' = NoOutcome
    /\ st' = <<>>
    /\ plan' = <<>>
    /\ pidx' = 0
    /\ dpc' = "start"
    /\ exit' = ""
    /\ dlog' = <<>>
    /\ shown' = NoShown
    /\ UNCHANGED <<repo, disk>>
    /\ UNCHANGED <<execVars, actionVars>>

\* no package of g depends on itself through any chain of dependencies
Acyclic(g) == \A n \in DOMAIN g : ~OnCycle(g, n)

\* the first command: the ledger file is empty and the repository has no
\* dependency cycle
CommandsInit ==
    /\ DriverInit(FALSE, {<<>>})
    /\ Acyclic(repo)

CommandsNext ==
    \/ cmd_install
    \/ cmd_update
    \/ cmd_uninstall
    \/ DriverRun
    \/ \E needed \in Needs : DriverDryRun(needed)
    \/ \E ok \in ExecutorReports : DriverReport(ok)
    \/ DriverFinish
    \/ NextCommand

\* up to MaxCommands commands on one ledger and one repository, with an
\* executor that reports (ok, msg) as the commands expect of ex.run
SpecCommands == CommandsInit /\ [][CommandsNext]_vars

\* every package recorded in led has all the dependencies its definition
\* in g declares recorded in led
DepsRecorded(g, led) ==
    \A n \in DOMAIN led : \A d \in DepsOf(g, n) : d \in DOMAIN led

SpecPacman == ActionInit(PacmanClasses) /\ [][ActionNext]_vars

\* the packages the i-th call installed on the machine
NewlyInstalled(i) == calls[i].system_after \ calls[i].system_before

\* C34: PacmanInstall.rollback(), called after a run() of the instance
\* (complete or failed part-way), uninstalls exactly the packages that run
\* newly installed and recorded and removes them from the install record;
\* the packages installed before the run stay installed and the other lines
\* of the record stay
C34_RollbackUninstallsNew ==
    cls = "PacmanInstall" =>
        \A i \in 1..(Len(calls) - 1) :
            (calls[i].m = "run" /\ calls[i + 1].m = "rollback") =>
                /\ calls[i + 1].system_after = calls[i].system_before
                /\ \A p \in NewlyInstalled(i) :
                       ~In(p, InstalledLines(calls[i + 1].after))
                /\ \A p \in PkgNames \ NewlyInstalled(i) :
                       In(p, InstalledLines(calls[i + 1].after))
                           <=> In(p, InstalledLines(calls[i].before))


\* package p was listed in the install record when a check() among the
\* calls before the i-th found it
RecordedAtCheck(i, p) ==
    \E j \in 1..(i - 1) : calls[j].m = "check" /\ In(p, InstalledLines(calls[j].before))

\* C39: PacmanUninstall touches only packages that were listed in the
\* install record when check() looked: need_to_remove, over which run() and
\* rollback() loop, holds no other package, run() removes no other package
\* from the machine and rollback() installs no other package
C39_OnlyRecordedPackages ==
    cls = "PacmanUninstall" =>
        \A i \in 1..Len(calls) :
            /\ \A k \in 1..Len(calls[i].fields.need_to_remove) :
                   RecordedAtCheck(i + 1, calls[i].fields.need_to_remove[k])
            /\ \A p \in PkgNames :
                   ~RecordedAtCheck(i, p) =>
                       (p \in calls[i].system_before <=> p \in calls[i].system_after)

\* check(), run() and rollback() of an instance given a recorded and an
\* unrecorded package, both installed: run removed the recorded one
C39_Witness ==
    /\ cls = "PacmanUninstall"
    /\ Len(calls) = 3
    /\ calls[1].m = "check" /\ calls[2].m = "run" /\ calls[3].m = "rollback"
    /\ \E p, q \in Range(args) :
           /\ ~In(p, InstalledLines(calls[1].before))
           /\ In(q, InstalledLines(calls[1].before))
           /\ {p, q} \subseteq calls[1].system_before
           /\ q \notin calls[2].system_after
           /\ p \in system


\* C32: for CreateLink, run() followed by rollback() leaves at the link path
\* what was there before run(): nothing, the symlink to the previous target,
\* or the previous regular file
C32_LinkRoundTrip ==
    cls = "CreateLink" =>
        \A i \in 1..(Len(calls) - 1) :
            (/\ calls[i].m = "run" /\ calls[i + 1].m = "rollback"
             /\ calls[i].before.kind \in {"absent", "link", "file"})
                => calls[i + 1].after = calls[i].before


\* the lines of the file the i-th call found, and the managed block in them
LinesBefore(i) == splitlines(path_read_text(calls[i].before.data))
LinesAfter(i) == splitlines(path_read_text(calls[i].after.data))
BlockBefore(i) == _find_block(path_read_text(calls[i].before.data))

\* the lines between the markers equal the lines of the content
BlockEqual(i) ==
    /\ calls[i].before.kind = "file"
    /\ BlockBefore(i).found
    /\ SubSeq(LinesBefore(i), BlockBefore(i).i + 1, BlockBefore(i).j - 1)
           = splitlines(rstrip(args))

\* check() is false on a file whose block has the content
C33_EqualBlockNoWork ==
    \A i \in 1..Len(calls) : (calls[i].m = "check" /\ BlockEqual(i)) => ~calls[i].result

\* run() on a file whose block differs replaces the lines from the begin
\* marker to the end marker and no other line
C33_ReplacesBlockOnly ==
    \A i \in 1..Len(calls) :
        (/\ calls[i].m = "run" /\ calls[i].before.kind = "file"
         /\ BlockBefore(i).found /\ ~BlockEqual(i))
            => /\ calls[i].after.kind = "file"
               /\ LinesAfter(i) =
                      SubSeq(LinesBefore(i), 1, BlockBefore(i).i - 1)
                          \o block_lines(args)
                          \o SubSeq(LinesBefore(i), BlockBefore(i).j + 1,
                                    Len(LinesBefore(i)))

\* run() on a file without a block (or on no file) appends the block at the
\* end
C33_AppendsAtEnd ==
    \A i \in 1..Len(calls) :
        (/\ calls[i].m = "run" /\ calls[i].before.kind \in {"absent", "file"}
         /\ ~BlockBefore(i).found)
            => /\ calls[i].after.kind = "file"
               /\ LinesAfter(i) = LinesBefore(i) \o block_lines(args)
               /\ SubSeq(calls[i].after.data, 1, Len(calls[i].before.data))
                      = calls[i].before.data

\* run() followed by rollback() leaves the file as run() found it: the same
\* content, or no file
C33_RunRollbackRestores ==
    \A i \in 1..(Len(calls) - 1) :
        (/\ calls[i].m = "run" /\ calls[i + 1].m = "rollback"
         /\ calls[i].before.kind \in {"absent", "file"})
            => calls[i + 1].after = calls[i].before

\* C33: for EnsureBlockPresent, check() is false when the managed block is
\* there with equal content; run() replaces only the lines between and
\* including the markers when the block is there and differs, and appends
\* the block at the end when it is not there; run() followed by rollback()
\* restores the file to its state before run() (same content, or absence)
C33_ManagedBlock ==
    cls = "EnsureBlockPresent" =>
        /\ C33_EqualBlockNoWork
        /\ C33_ReplacesBlockOnly
        /\ C33_AppendsAtEnd
        /\ C33_RunRollbackRestores

=============================================================================
